---- MODULE Spec2Model ----
(***************************************************************************)
(* Model of the post generation pipeline of nithin-post-generator:        *)
(* app/main.py (the generation endpoint), scripts/generate_nithin_post.py  *)
(* (the command line entry), app/nithin_post_generator.py (the            *)
(* orchestrator) and app/research_client.py (the search collaborator).     *)
(*                                                                         *)
(* Text is a sequence of one-character strings.  An Optional value is the  *)
(* empty tuple (None) or a one-element tuple holding the value.            *)
(***************************************************************************)
EXTENDS Integers, Sequences, FiniteSets, TLC

VARIABLES
    env,              \* process environment read by the constructors
    entry,            \* "api" (app/main.py) or "cli" (scripts/generate_nithin_post.py)
    req,              \* the request as received at the entry
    pc,               \* position of the request in the pipeline
    generator,        \* the NithinPostGenerator in use (None until obtained)
    platform,         \* generate(): platform argument
    thread,           \* generate(): thread argument
    warnings,         \* generate(): warnings list
    research_results, \* generate(): research_results
    research_used,    \* generate(): research_used
    research_summary, \* generate(): research_summary
    research_query_used, \* generate(): research_query_used (Optional text)
    system_prompt,    \* Optional system prompt handed to the generation call
    user_prompt,      \* Optional user prompt handed to the generation call
    text,             \* generate(): text (the draft)
    gen_reply,        \* Optional: what the generation call answered (a text or an error)
    proof_reply,      \* Optional: what the proofreading pass answered (a text or an error)
    calls,            \* external calls made so far, in order
    result,           \* what the entry point got back
    wargs,            \* a call of _basic_warnings on its own: Optional arguments
    wout,             \* a call of _basic_warnings on its own: Optional result
    dargs,            \* a call of parse_activity_date on its own: Optional arguments
    dout,             \* a call of parse_activity_date on its own: Optional outcome
    extraction,       \* a run of extract_posts: Optional record of its locals
    corpus_file,      \* the corpus file: None (no such path) or its content
    corpus_was,       \* the corpus file as it was before any writer ran
    writers,          \* the calls of write_corpus in progress, one record per writer
    read_back,        \* Optional result of read_corpus
    ingest,           \* an ingestion run (main of an ingestion script): Optional record
    style_file,       \* data/nithin_style_guide.json: None (no such path) or the profile
    _nithin_generator, \* the module global of app/nithin_post_generator.py
    callers           \* the concurrent calls of get_nithin_generator

genVars == <<env, entry, req, pc, generator, platform, thread, warnings,
             research_results, research_used, research_summary,
             research_query_used, system_prompt, user_prompt, text,
             gen_reply, proof_reply, calls, result>>
warnVars == <<wargs, wout>>
dateVars == <<dargs, dout>>
extractVars == <<extraction>>
corpusVars == <<corpus_file, corpus_was, writers, read_back>>
ingestVars == <<ingest, style_file>>
singletonVars == <<_nithin_generator, callers>>
toolVars == <<dateVars, extractVars, corpusVars, ingestVars, singletonVars>>
restVars == <<warnVars, toolVars>>
vars == <<genVars, warnVars, toolVars>>

None == <<>>
Some(v) == <<v>>

\* nothing of the offline tools or of the singleton has run
DateIdle == dargs = None /\ dout = None
ExtractIdle == extraction = None
CorpusIdle ==
    corpus_file = None /\ corpus_was = None /\ writers = <<>> /\ read_back = None
IngestIdle == ingest = None /\ style_file = None
SingletonIdle == _nithin_generator = None /\ callers = <<>>
ToolsIdle == DateIdle /\ ExtractIdle /\ CorpusIdle /\ IngestIdle /\ SingletonIdle

(***************************************************************************)
(* Bounds of the model.                                                    *)
(***************************************************************************)
MaxDraftLen == 6       \* unary drafts a^0 .. a^MaxDraftLen returned by the model
MaxResults == 2        \* results a search provider answers with
MaxLineLen == 3        \* length of the enumerated texts of the length validation
SmallLimit == 2        \* a character limit small enough for the enumerated texts

(***************************************************************************)
(* Program constants.                                                      *)
(***************************************************************************)
ShortContextWords == 20   \* len(context.split()) < 20
DefaultMaxChars == 280    \* .get("max_chars", 280)
ProofreadNum == 6         \* len(edited) > len(draft) * 1.2, as 5*len(edited) > 6*len(draft)
ProofreadDen == 5
DefaultVariants == 3      \* variants: int = 3
SearchMaxResults == 5     \* search(..., max_results=5): asked of the provider, the answer is not cut to it
SnippetMaxChars == 280    \* if len(snippet) > 280
SnippetKeepChars == 277   \* snippet[:277] + "..."

(***************************************************************************)
(* Python string operations on texts.                                      *)
(***************************************************************************)
IsSpace(c) == c \in {" ", "\n", "\t"}
IsDigit(c) == c \in {"0", "1", "2", "3", "4", "5", "6", "7", "8", "9"}

Min(S) == CHOOSE x \in S : \A y \in S : x <= y

\* index of the first character at or after i that is no whitespace (Len(s)+1: none)
RECURSIVE FirstNonSpace(_, _)
FirstNonSpace(s, i) ==
    IF i > Len(s) THEN i
    ELSE IF IsSpace(s[i]) THEN FirstNonSpace(s, i + 1) ELSE i

\* index of the last character at or before i that is no whitespace (0: none)
RECURSIVE LastNonSpace(_, _)
LastNonSpace(s, i) ==
    IF i < 1 THEN 0
    ELSE IF IsSpace(s[i]) THEN LastNonSpace(s, i - 1) ELSE i

lstrip(s) == SubSeq(s, FirstNonSpace(s, 1), Len(s))
rstrip(s) == SubSeq(s, 1, LastNonSpace(s, Len(s)))

\* str.strip()
strip(s) == SubSeq(s, FirstNonSpace(s, 1), LastNonSpace(s, Len(s)))

\* str.split(): the whitespace-delimited words, no empty word
RECURSIVE split(_)
split(s) ==
    LET t == lstrip(s)
        sp == {i \in 1..Len(t) : IsSpace(t[i])}
        k == IF sp = {} THEN Len(t) + 1 ELSE Min(sp)
    IN IF t = <<>> THEN <<>>
       ELSE <<SubSeq(t, 1, k - 1)>> \o split(SubSeq(t, k + 1, Len(t)))

\* str.splitlines(): cut at each newline; a final newline opens no empty last line
RECURSIVE splitlines(_)
splitlines(s) ==
    LET nl == {i \in 1..Len(s) : s[i] = "\n"}
    IN IF s = <<>> THEN <<>>
       ELSE IF nl = {} THEN <<s>>
       ELSE <<SubSeq(s, 1, Min(nl) - 1)>> \o splitlines(SubSeq(s, Min(nl) + 1, Len(s)))

\* str.lower() on ASCII letters
LowerChar(c) ==
    CASE c = "A" -> "a" [] c = "B" -> "b" [] c = "C" -> "c" [] c = "D" -> "d"
      [] c = "E" -> "e" [] c = "F" -> "f" [] c = "G" -> "g" [] c = "H" -> "h"
      [] c = "I" -> "i" [] c = "J" -> "j" [] c = "K" -> "k" [] c = "L" -> "l"
      [] c = "M" -> "m" [] c = "N" -> "n" [] c = "O" -> "o" [] c = "P" -> "p"
      [] c = "Q" -> "q" [] c = "R" -> "r" [] c = "S" -> "s" [] c = "T" -> "t"
      [] c = "U" -> "u" [] c = "V" -> "v" [] c = "W" -> "w" [] c = "X" -> "x"
      [] c = "Y" -> "y" [] c = "Z" -> "z"
      [] OTHER -> c
lower(s) == [i \in 1..Len(s) |-> LowerChar(s[i])]

Contains(s, c) == \E i \in 1..Len(s) : s[i] = c
\* s[k-1:].startswith(prefix), k counted from 1
StartsAt(s, k, prefix) ==
    k >= 1 /\ k + Len(prefix) - 1 <= Len(s) /\ SubSeq(s, k, k + Len(prefix) - 1) = prefix
Take(s, n) == SubSeq(s, 1, IF Len(s) < n THEN Len(s) ELSE n)
Rep(c, n) == [i \in 1..n |-> c]

\* sep.join(items)
RECURSIVE join(_, _)
join(sep, items) ==
    IF items = <<>> THEN <<>>
    ELSE IF Len(items) = 1 THEN items[1]
    ELSE items[1] \o sep \o join(sep, Tail(items))

\* n words "a" separated by single spaces
Words(n) == IF n = 0 THEN <<>> ELSE join(<<" ">>, Rep(<<"a">>, n))

(***************************************************************************)
(* String literals of the source.                                          *)
(***************************************************************************)
S_x == <<"x">>
S_linkedin == <<"l","i","n","k","e","d","i","n">>
S_AddFact == <<"[","A","D","D"," ","F","A","C","T","]">>
S_DefaultAngle == <<"p","r","a","g","m","a","t","i","c",","," ","b","a","l","a","n","c","e","d"," ","t","a","k","e">>
S_DefaultCta == <<"W","h","a","t"," ","d","o"," ","y","o","u"," ","t","h","i","n","k","?">>
S_FactSep == <<";"," ">>
S_T1 == <<"1","/","3"," ">>
S_T2 == <<"2","/","3"," ">>
S_T3 == <<"3","/","3"," ">>
S_DataExample == <<"D","a","t","a","/","E","x","a","m","p","l","e",":"," ">>
S_TakeawayPlaceholder == <<"T","a","k","e","a","w","a","y",":"," ","[","A","D","D"," ","T","A","K","E","A","W","A","Y","]","."," ">>
S_Data == <<" ","D","a","t","a",":"," ">>
S_DataOrExample == <<"D","a","t","a"," ","o","r"," ","e","x","a","m","p","l","e",":"," ">>
S_Learned == <<"W","h","a","t"," ","w","e"," ","l","e","a","r","n","e","d"," ","/"," ","d","i","d",":"," ","[","A","D","D"," ","D","E","T","A","I","L","]",".">>
S_Takeaway == <<"T","a","k","e","a","w","a","y",":"," ">>
S_Dot == <<".">>
S_DotSp == <<"."," ">>
S_NL == <<"\n">>

ValidPlatforms == {S_x, S_linkedin}


Truthy(opt) == opt # None /\ opt[1] # <<>>      \* an Optional text in a condition
TruthyInt(opt) == opt # None /\ opt[1] # 0      \* an Optional int in a condition

(***************************************************************************)
(* app/research_client.py                                                  *)
(***************************************************************************)
SearchProviders == {"tavily", "serper", "brave"}

\* ResearchClient.__init__
ResearchClient(e) == [provider |-> e.research_provider, api_key |-> e.research_key]

\* ResearchClient.is_available
research_is_available(rc) == rc.provider # "" /\ rc.api_key

\* ResearchClient.search: TRUE when the call reaches a search provider
search_calls_provider(rc) == research_is_available(rc) /\ rc.provider \in SearchProviders

SampleResult == [title |-> <<"t">>, url |-> <<"u">>, snippet |-> <<"s">>]

\* What a provider can answer: a transport error, or a list of results, which
\* may be longer than the max_results it was asked for
SearchOutcomes ==
    {[ok |-> FALSE, results |-> <<>>]} \cup
    {[ok |-> TRUE, results |-> Rep(SampleResult, n)] :
        n \in (0..MaxResults) \cup {SearchMaxResults + 1}}

(***************************************************************************)
(* app/nithin_post_generator.py                                            *)
(***************************************************************************)
\* NithinPostGenerator.__init__
NithinPostGenerator(e) ==
    LET client == e.anthropic_lib /\ e.anthropic_key
    IN [llm_provider |-> IF client THEN "anthropic"
                         ELSE IF e.ollama_model THEN "ollama" ELSE "none",
        lt_tool |-> e.lt_tool,
        research |-> ResearchClient(e),
        style |-> e.style]

\* NithinPostGenerator.is_available
is_available(g) == g.llm_provider \in {"anthropic", "ollama"}

\* get_nithin_generator
get_nithin_generator(g, e) == IF g = None THEN Some(NithinPostGenerator(e)) ELSE g

\* mutant: a context of exactly 20 words still counts as short
_pick_research_query_le(context, research_query, auto_research) ==
    IF Truthy(research_query) THEN Some(strip(research_query[1]))
    ELSE IF ~auto_research THEN None
    ELSE IF Len(split(context)) <= ShortContextWords THEN Some(strip(context))
    ELSE None

\* _pick_research_query
_pick_research_query(context, research_query, auto_research) ==
    IF Truthy(research_query) THEN Some(strip(research_query[1]))
    ELSE IF ~auto_research THEN None
    ELSE IF Len(split(context)) < ShortContextWords THEN Some(strip(context))
    ELSE None

\* mutant: the summarization call is made without a configured provider
summarize_calls_model_unguarded(g, results) == results # <<>>

\* _summarize_research: TRUE when the summarization call is made
summarize_calls_model(g, results) == results # <<>> /\ is_available(g)

\* What a model call can answer: a provider error with its message, or a text
ErrorMessages == {<<"E">>}
LlmError(msg) == [ok |-> FALSE, text |-> msg]
LlmText(t) == [ok |-> TRUE, text |-> t]

\* _llm_generate: the answer of the call, stripped; an error when no provider is set
_llm_generate(g, outcome) ==
    IF is_available(g)
    THEN (IF outcome.ok THEN LlmText(strip(outcome.text)) ELSE outcome)
    ELSE LlmError(<<"N">>)

\* _summarize_research
_summarize_research(g, results, outcome) ==
    IF ~summarize_calls_model(g, results) THEN <<>>
    ELSE LET r == _llm_generate(g, outcome) IN IF r.ok THEN r.text ELSE <<>>

\* mutant: an edit of exactly 1.2 times the draft is rejected too
TooLong_ge(e, d) == ProofreadDen * Len(e) >= ProofreadNum * Len(d)

\* len(edited) > len(draft) * 1.2
TooLong(e, d) == ProofreadDen * Len(e) > ProofreadNum * Len(d)

\* _proofread: Optional text. llm is the answer of the model pass, lt the answer
\* of the grammar checker (only the pass the code takes is consulted).
_proofread(g, d, llm, lt) ==
    IF is_available(g)
    THEN LET r == _llm_generate(g, llm)
         IN IF ~r.ok THEN None
            ELSE IF r.text = <<>> THEN None
            ELSE IF TooLong(r.text, d) THEN None
            ELSE Some(r.text)
    ELSE IF ~g.lt_tool THEN None
    ELSE IF ~lt.ok THEN None
    ELSE IF TooLong(lt.text, d) THEN None
    ELSE Some(lt.text)

\* _proofread: the answer of the pass it takes (an error when it takes none)
proofread_reply(g, llm, lt) ==
    IF is_available(g) THEN _llm_generate(g, llm)
    ELSE IF g.lt_tool THEN lt ELSE LlmError(<<>>)

\* mutant: the pass is run a second time
proofread_call_twice(g) ==
    IF is_available(g) THEN <<"proofread", "proofread">>
    ELSE IF g.lt_tool THEN <<"grammar">> ELSE <<>>

\* mutant: the grammar checker is preferred when there is one
proofread_call_grammar_first(g) ==
    IF g.lt_tool THEN <<"grammar">>
    ELSE IF is_available(g) THEN <<"proofread">> ELSE <<>>

\* which collaborator _proofread calls
proofread_call(g) ==
    IF is_available(g) THEN <<"proofread">>
    ELSE IF g.lt_tool THEN <<"grammar">> ELSE <<>>

\* _format_sources
_format_sources(results) ==
    [i \in 1..Len(results) |->
        [title |-> results[i].title, url |-> results[i].url, snippet |-> results[i].snippet]]

Warning(kind, limit, detail) == [kind |-> kind, limit |-> limit, detail |-> detail]
W_NoSearchKey == Warning("research_not_configured", 0, <<>>)
W_NoResults == Warning("research_no_results", 0, <<>>)
W_Skipped == Warning("research_skipped", 0, <<>>)
W_NoLLM == Warning("no_llm", 0, <<>>)
W_LlmError_generic(msg) == Warning("llm_error", 0, <<>>)  \* mutant: the message is dropped
W_LlmError(msg) == Warning("llm_error", 0, msg)
W_Proofread == Warning("proofread_failed", 0, <<>>)
W_Post(limit) == Warning("post_exceeds", limit, <<>>)
W_Tweet(limit, cleaned) == Warning("tweet_exceeds", limit, Take(cleaned, 60))

\* mutant: the profile's limit is ignored
per_post_limit_no_profile(style, max_chars) ==
    IF TruthyInt(max_chars) THEN max_chars[1] ELSE DefaultMaxChars

\* _basic_warnings: per_post_limit
per_post_limit(style, max_chars) ==
    IF TruthyInt(max_chars) THEN max_chars[1]
    ELSE IF style.x # None THEN style.x[1] ELSE DefaultMaxChars

\* mutant: the line is tested as it stands, untrimmed
line_exceeds_raw(line, limit) ==
    /\ strip(line) # <<>>
    /\ IsDigit(line[1]) /\ Contains(line, "/") /\ Len(line) > limit

\* _basic_warnings: the test of one line of a thread
line_exceeds(line, limit) ==
    LET cleaned == strip(line)
    IN cleaned # <<>> /\ IsDigit(cleaned[1]) /\ Contains(cleaned, "/")
       /\ Len(cleaned) > limit

RECURSIVE thread_warnings(_, _)
thread_warnings(lines, limit) ==
    IF lines = <<>> THEN <<>>
    ELSE (IF line_exceeds(Head(lines), limit)
          THEN <<W_Tweet(limit, strip(Head(lines)))>> ELSE <<>>)
         \o thread_warnings(Tail(lines), limit)

\* _basic_warnings
_basic_warnings(style, t, p, max_chars, th) ==
    IF p # S_x THEN <<>>
    ELSE LET limit == per_post_limit(style, max_chars)
         IN IF th THEN thread_warnings(splitlines(t), limit)
            ELSE IF Len(t) > limit THEN <<W_Post(limit)>> ELSE <<>>

\* mutant: an empty facts list leaves the data part empty, without placeholder
_fallback_template_no_placeholder(context, p, facts, angle, cta, th) ==
    LET facts_line == join(S_FactSep, facts)
        angle_line == IF Truthy(angle) THEN angle[1] ELSE S_DefaultAngle
        cta_line == IF Truthy(cta) THEN cta[1] ELSE S_DefaultCta
    IN IF p = S_x
       THEN IF th
            THEN S_T1 \o strip(context) \o S_NL
                 \o S_T2 \o S_DataExample \o facts_line \o S_DotSp \o angle_line \o S_Dot \o S_NL
                 \o S_T3 \o S_TakeawayPlaceholder \o cta_line
            ELSE strip(context) \o S_Data \o facts_line \o S_DotSp \o angle_line
                 \o S_DotSp \o cta_line
       ELSE strip(context) \o S_NL \o S_NL
            \o S_DataOrExample \o facts_line \o S_Dot \o S_NL \o S_NL
            \o S_Learned \o S_NL \o S_NL
            \o S_Takeaway \o angle_line \o S_DotSp \o cta_line

\* _fallback_template
_fallback_template(context, p, facts, angle, cta, th) ==
    LET facts_line == IF facts # <<>> THEN join(S_FactSep, facts) ELSE S_AddFact
        angle_line == IF Truthy(angle) THEN angle[1] ELSE S_DefaultAngle
        cta_line == IF Truthy(cta) THEN cta[1] ELSE S_DefaultCta
    IN IF p = S_x
       THEN IF th
            THEN S_T1 \o strip(context) \o S_NL
                 \o S_T2 \o S_DataExample \o facts_line \o S_DotSp \o angle_line \o S_Dot \o S_NL
                 \o S_T3 \o S_TakeawayPlaceholder \o cta_line
            ELSE strip(context) \o S_Data \o facts_line \o S_DotSp \o angle_line
                 \o S_DotSp \o cta_line
       ELSE strip(context) \o S_NL \o S_NL
            \o S_DataOrExample \o facts_line \o S_Dot \o S_NL \o S_NL
            \o S_Learned \o S_NL \o S_NL
            \o S_Takeaway \o angle_line \o S_DotSp \o cta_line

\* _build_system_prompt: the directives that depend on the request
_build_system_prompt(style, p, th, variants, max_chars) ==
    [platform |-> p,
     thread |-> IF th THEN "yes" ELSE "no",
     variants |-> variants,
     max_chars_rule |-> IF TruthyInt(max_chars) THEN max_chars
                        ELSE IF p = S_x THEN style.x ELSE style.linkedin,
     format |-> IF p = S_x
                THEN (IF th THEN "thread_labels" ELSE "single_tweet")
                ELSE "linkedin_paragraphs"]

\* _build_user_prompt: the snippet of one research line
prompt_snippet(raw) ==
    LET snippet == strip(raw)
    IN IF Len(snippet) > SnippetMaxChars
       THEN Take(snippet, SnippetKeepChars) \o <<".", ".", ".">>
       ELSE snippet

\* _build_user_prompt
_build_user_prompt(context, facts, angle, cta, results, summary) ==
    [context |-> context, facts |-> facts, angle |-> angle, cta |-> cta,
     research |-> [i \in 1..Len(results) |->
                      [n |-> i, title |-> results[i].title,
                       snippet |-> prompt_snippet(results[i].snippet),
                       url |-> results[i].url]],
     summary |-> summary]

\* the metadata dict of a GeneratedPost
Metadata(p, th, variants, llm, used, query, summary, results) ==
    [platform |-> p, thread |-> th, variants |-> variants, llm |-> llm,
     research_used |-> used, research_query |-> query,
     research_summary |-> summary, sources |-> _format_sources(results)]

GeneratedPost(t, w, m) == [status |-> "ok", text |-> t, warnings |-> w, metadata |-> m]
NoResult(status) == [status |-> status, text |-> <<>>, warnings |-> <<>>, metadata |-> <<>>]


(***************************************************************************)
(* Inputs: environments, requests and collaborator answers.                *)
(***************************************************************************)
Env(al, ak, om, lt, rp, rk, sx) ==
    [anthropic_lib |-> al, anthropic_key |-> ak, ollama_model |-> om,
     lt_tool |-> lt, research_provider |-> rp, research_key |-> rk,
     style |-> [x |-> sx, linkedin |-> None]]

\* (Anthropic importable, ANTHROPIC_API_KEY set, OLLAMA_MODEL set)
LlmEnvs == {<<TRUE, TRUE, FALSE>>, <<TRUE, TRUE, TRUE>>, <<FALSE, TRUE, TRUE>>,
            <<TRUE, FALSE, FALSE>>}
\* (RESEARCH_PROVIDER, a search API key set)
ResearchEnvs == {<<"", TRUE>>, <<"tavily", FALSE>>, <<"tavily", TRUE>>, <<"bing", TRUE>>}

C_a == <<"a">>
ShortContext == <<" ", "a", " ">>
Contexts == {<<>>, ShortContext, Words(ShortContextWords - 1),
             <<" ">> \o Words(ShortContextWords)}
Queries == {None, Some(<<>>), Some(<<" ">>), Some(<<" ", "q", " ">>)}
RawPlatforms == {S_x, <<" ", "X", " ">>, S_linkedin,
                 <<"L","i","n","k","e","d","I","n">>, <<"f", "b">>}

\* app/models.py: NithinGenerateRequest with its defaults
Request(p) ==
    [platform |-> p, context |-> C_a, facts |-> <<>>, angle |-> None, cta |-> None,
     thread |-> FALSE, variants |-> DefaultVariants, max_chars |-> None,
     allow_research |-> TRUE, research_query |-> None, auto_research |-> TRUE,
     proofread |-> TRUE]

\* contexts of the template: one line, blank, a trailing newline, two lines
DraftContexts == {C_a, <<" ">>, <<" ", "a", "\n">>, <<"a", "\n", "b">>}

ThreadSample == <<"1","/","2"," ","a","a","\n"," ","2","/","2","\n","\n","a","a","a">>
LongPost == Rep("a", DefaultMaxChars + 20)

\* answers of the generation call
GenOutcomes ==
    {LlmError(m) : m \in ErrorMessages}
    \cup {LlmText(Rep("a", n)) : n \in 0..MaxDraftLen}
    \cup {LlmText(ThreadSample \o <<"\n">>), LlmText(LongPost)}

\* answers of the summarization call
SummaryOutcomes ==
    {LlmError(m) : m \in ErrorMessages} \cup {LlmText(<<>>), LlmText(<<" ", "s">>)}

\* answers of the proofreading pass on draft d
EditOutcomes(d) ==
    {LlmError(m) : m \in ErrorMessages}
    \cup {LlmText(Rep("a", n)) : n \in 0..(MaxDraftLen + 1)}
    \cup {LlmText(<<" ">>), LlmText(d), LlmText(d \o <<"\n">>)}

\* answers of the grammar checker on draft d
GrammarOutcomes(d) == {LlmError(m) : m \in ErrorMessages} \cup {LlmText(d)}

(***************************************************************************)
(* Initial states.  The request is complete on arrival; nothing has run.   *)
(***************************************************************************)
Idle ==
    /\ generator = None
    /\ platform = <<>>
    /\ thread = FALSE
    /\ warnings = <<>>
    /\ research_results = <<>>
    /\ research_used = FALSE
    /\ research_summary = <<>>
    /\ research_query_used = None
    /\ system_prompt = None
    /\ user_prompt = None
    /\ text = <<>>
    /\ gen_reply = None
    /\ proof_reply = None
    /\ calls = <<>>
    /\ result = NoResult("pending")

\* the request flags, under every provider configuration
InitFlags ==
    /\ \E l \in LlmEnvs, r \in ResearchEnvs \ {<<"tavily", FALSE>>} :
          env = Env(l[1], l[2], l[3], TRUE, r[1], r[2], None)
    /\ entry \in {"api", "cli"}
    /\ \E p \in RawPlatforms, th \in BOOLEAN, ar \in BOOLEAN, pr \in BOOLEAN,
          v \in {1, DefaultVariants} :
          /\ entry = "cli" => p \in {S_x, S_linkedin, <<"f", "b">>}
          /\ req = [Request(p) EXCEPT !.thread = th, !.allow_research = ar,
                                      !.proofread = pr, !.variants = v]

\* the research inputs
InitResearch ==
    /\ \E l \in {<<TRUE, TRUE, FALSE>>, <<TRUE, FALSE, FALSE>>},
          r \in {<<"tavily", FALSE>>, <<"tavily", TRUE>>} :
          env = Env(l[1], l[2], l[3], TRUE, r[1], r[2], None)
    /\ entry = "api"
    /\ \E c \in Contexts, q \in Queries, au \in BOOLEAN, ar \in BOOLEAN :
          req = [Request(S_x) EXCEPT !.context = c, !.research_query = q,
                                     !.auto_research = au, !.allow_research = ar]

\* the inputs of the template and of the length validation
InitDraft ==
    /\ \E l \in {<<TRUE, TRUE, FALSE>>, <<TRUE, FALSE, FALSE>>}, lt \in BOOLEAN,
          sx \in {None, Some(SmallLimit)} :
          env = Env(l[1], l[2], l[3], lt, "", FALSE, sx)
    /\ entry = "cli"
    /\ \E p \in ValidPlatforms, th \in BOOLEAN,
          mc \in {None, Some(0), Some(SmallLimit + 1)},
          c \in DraftContexts,
          f \in {<<>>, <<<<"f">>>>, <<<<"f">>, <<"g">>>>},
          an \in {None, Some(<<>>), Some(<<"n">>)}, ct \in {None, Some(<<"c">>)} :
          req = [Request(p) EXCEPT !.thread = th, !.max_chars = mc, !.context = c,
                                   !.facts = f, !.angle = an, !.cta = ct,
                                   !.allow_research = FALSE]

Init ==
    /\ pc = "entry"
    /\ Idle
    /\ InitFlags \/ InitResearch \/ InitDraft
    /\ wargs = None
    /\ wout = None
    /\ ToolsIdle

(***************************************************************************)
(* The entry points.                                                       *)
(***************************************************************************)
generateLocals == <<warnings, research_results, research_used, research_summary,
                    research_query_used, system_prompt, user_prompt, text,
                    gen_reply, proof_reply, calls>>

\* app/main.py: generate_nithin_post, up to the call of generate()
ApiGenerate ==
    /\ pc = "entry"
    /\ entry = "api"
    /\ LET p == strip(lower(req.platform))
       IN IF p \notin ValidPlatforms
          THEN /\ result' = NoResult("http400")
               /\ pc' = "done"
               /\ UNCHANGED <<generator, platform, thread>>
          ELSE /\ generator' = get_nithin_generator(generator, env)
               /\ platform' = p
               /\ thread' = IF p = S_x THEN req.thread ELSE FALSE
               /\ pc' = "research"
               /\ UNCHANGED result
    /\ UNCHANGED <<env, entry, req, generateLocals, restVars>>

\* scripts/generate_nithin_post.py: parse_args and main, up to the call of generate().
\* --platform has choices x and linkedin; req holds the flags as main() passes them
\* (allow_research and proofread after their --disable-* switches).
CliMain ==
    /\ pc = "entry"
    /\ entry = "cli"
    /\ IF req.platform \notin ValidPlatforms
       THEN /\ result' = NoResult("usage_error")
            /\ pc' = "done"
            /\ UNCHANGED <<generator, platform, thread>>
       ELSE /\ generator' = Some(NithinPostGenerator(env))
            /\ platform' = req.platform
            /\ thread' = req.thread
            /\ pc' = "research"
            /\ UNCHANGED result
    /\ UNCHANGED <<env, entry, req, generateLocals, restVars>>


(***************************************************************************)
(* NithinPostGenerator.generate, one action per stage.                     *)
(***************************************************************************)
fixed == <<env, entry, req, generator, platform, thread, restVars>>

\* the metadata generate() builds at each of its three returns
ReturnMetadata(variants, llm) ==
    Metadata(platform, thread, variants, llm, research_used, research_query_used,
             research_summary, research_results)

\* mutant: a fallback return reports the requested variant count
FallbackPost_requested(w) ==
    GeneratedPost(_fallback_template(req.context, platform, req.facts, req.angle,
                                     req.cta, thread),
                  warnings \o <<w>>,
                  ReturnMetadata(req.variants, FALSE))

\* mutant: the length validation runs on the template as well
FallbackPost_validated(w) ==
    LET t == _fallback_template(req.context, platform, req.facts, req.angle, req.cta,
                                thread)
    IN GeneratedPost(t,
                     warnings \o <<w>>
                        \o _basic_warnings(generator[1].style, t, platform,
                                           req.max_chars, thread),
                     ReturnMetadata(1, FALSE))

\* the two fallback returns
FallbackPost(w) ==
    GeneratedPost(_fallback_template(req.context, platform, req.facts, req.angle,
                                     req.cta, thread),
                  warnings \o <<w>>,
                  ReturnMetadata(1, FALSE))

\* the research decision
ResearchDecision ==
    /\ pc = "research"
    /\ LET g == generator[1]
       IN IF ~req.allow_research
          THEN /\ pc' = "gate"
               /\ UNCHANGED <<warnings, research_query_used>>
          ELSE IF ~research_is_available(g.research)
          THEN /\ warnings' = Append(warnings, W_NoSearchKey)
               /\ pc' = "gate"
               /\ UNCHANGED research_query_used
          ELSE LET q == _pick_research_query(req.context, req.research_query,
                                             req.auto_research)
               IN /\ research_query_used' = q
                  /\ IF Truthy(q)
                     THEN pc' = "search" /\ UNCHANGED warnings
                     ELSE /\ warnings' = Append(warnings, W_Skipped)
                          /\ pc' = "gate"
    /\ UNCHANGED <<fixed, research_results, research_used, research_summary,
                   system_prompt, user_prompt, text, gen_reply, proof_reply, calls,
                   result>>

\* self.research.search(research_query_used, max_results=5) and what follows it
SearchReturn(o) ==
    IF ~o.ok
    THEN /\ result' = NoResult("raised")
         /\ pc' = "done"
         /\ UNCHANGED <<research_results, research_used, warnings>>
    ELSE /\ research_results' = o.results
         /\ IF o.results # <<>>
            THEN /\ research_used' = TRUE
                 /\ pc' = "summarize"
                 /\ UNCHANGED warnings
            ELSE /\ warnings' = Append(warnings, W_NoResults)
                 /\ pc' = "gate"
                 /\ UNCHANGED research_used
         /\ UNCHANGED result

Search ==
    /\ pc = "search"
    /\ IF search_calls_provider(generator[1].research)
       THEN \E o \in SearchOutcomes : SearchReturn(o)
       ELSE SearchReturn([ok |-> TRUE, results |-> <<>>])
    /\ calls' = Append(calls, "search")
    /\ UNCHANGED <<fixed, research_summary, research_query_used, system_prompt,
                   user_prompt, text, gen_reply, proof_reply>>

\* research_summary = self._summarize_research(research_results, context)
Summarize ==
    /\ pc = "summarize"
    /\ LET g == generator[1]
       IN IF summarize_calls_model(g, research_results)
          THEN \E o \in SummaryOutcomes :
                  /\ calls' = Append(calls, "summarize")
                  /\ research_summary' = _summarize_research(g, research_results, o)
          ELSE /\ calls' = calls
               /\ research_summary' = _summarize_research(g, research_results,
                                                          LlmText(<<>>))
    /\ pc' = "gate"
    /\ UNCHANGED <<fixed, warnings, research_results, research_used,
                   research_query_used, system_prompt, user_prompt, text,
                   gen_reply, proof_reply, result>>

\* the availability gate and the construction of the prompts
Gate ==
    /\ pc = "gate"
    /\ LET g == generator[1]
       IN IF ~is_available(g)
          THEN /\ result' = FallbackPost(W_NoLLM)
               /\ text' = result'.text
               /\ pc' = "done"
               /\ UNCHANGED <<system_prompt, user_prompt>>
          ELSE /\ system_prompt' = Some(_build_system_prompt(g.style, platform, thread,
                                                             req.variants, req.max_chars))
               /\ user_prompt' = Some(_build_user_prompt(req.context, req.facts,
                                                         req.angle, req.cta,
                                                         research_results,
                                                         research_summary))
               /\ pc' = "generate"
               /\ UNCHANGED <<text, result>>
    /\ UNCHANGED <<fixed, warnings, research_results, research_used, research_summary,
                   research_query_used, gen_reply, proof_reply, calls>>

\* text = self._llm_generate(system_prompt, user_prompt, max_tokens=1200)
Generate ==
    /\ pc = "generate"
    /\ \E o \in GenOutcomes :
          LET r == _llm_generate(generator[1], o)
          IN /\ gen_reply' = Some(r)
             /\ IF ~r.ok
                THEN /\ result' = FallbackPost(W_LlmError(r.text))
                     /\ text' = result'.text
                     /\ pc' = "done"
                ELSE /\ text' = r.text
                     /\ pc' = IF req.proofread THEN "proofread" ELSE "validate"
                     /\ UNCHANGED result
    /\ calls' = Append(calls, "generate")
    /\ UNCHANGED <<fixed, warnings, research_results, research_used, research_summary,
                   research_query_used, system_prompt, user_prompt, proof_reply>>

\* the proofreading stage
Proofread ==
    /\ pc = "proofread"
    /\ \E llm \in EditOutcomes(text), lt \in GrammarOutcomes(text) :
          LET proofread_text == _proofread(generator[1], text, llm, lt)
          IN /\ proof_reply' = Some(proofread_reply(generator[1], llm, lt))
             /\ IF Truthy(proofread_text)
                THEN text' = proofread_text[1] /\ UNCHANGED warnings
                ELSE warnings' = Append(warnings, W_Proofread) /\ UNCHANGED text
    /\ calls' = calls \o proofread_call(generator[1])
    /\ pc' = "validate"
    /\ UNCHANGED <<fixed, research_results, research_used, research_summary,
                   research_query_used, system_prompt, user_prompt, gen_reply, result>>

\* the length validation and the last return
Validate ==
    /\ pc = "validate"
    /\ warnings' = warnings \o _basic_warnings(generator[1].style, text, platform,
                                               req.max_chars, thread)
    /\ result' = GeneratedPost(text, warnings', ReturnMetadata(req.variants, TRUE))
    /\ pc' = "done"
    /\ UNCHANGED <<fixed, research_results, research_used, research_summary,
                   research_query_used, system_prompt, user_prompt, text,
                   gen_reply, proof_reply, calls>>

Next ==
    \/ ApiGenerate
    \/ CliMain
    \/ ResearchDecision
    \/ Search
    \/ Summarize
    \/ Gate
    \/ Generate
    \/ Proofread
    \/ Validate

Spec == Init /\ [][Next]_vars


(***************************************************************************)
(* _basic_warnings on its own, on every short text.                        *)
(***************************************************************************)
WarnAlphabet == {"1", "/", "a", " ", "\n"}
ShortTexts == UNION {[1..k -> WarnAlphabet] : k \in 0..MaxLineLen}

\* a thread whose first and last lines are too long for the default limit
LongThread ==
    <<"1", "/">> \o Rep("a", DefaultMaxChars - 1) \o <<"\n">>
    \o <<"2", "/", "2">> \o <<"\n">>
    \o Rep("a", DefaultMaxChars + 1) \o <<"\n">>
    \o <<" ", "3", "/">> \o Rep("a", DefaultMaxChars - 1) \o <<" ">>
SmallThread ==
    <<"1","/","a","a","\n","\n"," ","2","/","a","a"," ","\n","a","b","/","\n","3","/">>

WarnTexts ==
    ShortTexts \cup {Rep("a", DefaultMaxChars), Rep("a", DefaultMaxChars + 1), LongPost,
                     LongThread, SmallThread, ThreadSample}

InitWarn ==
    /\ pc = "warn"
    /\ Idle
    /\ env = Env(FALSE, FALSE, FALSE, FALSE, "", FALSE, None)
    /\ entry = "cli"
    /\ req = Request(S_x)
    /\ \E t \in WarnTexts, p \in ValidPlatforms, th \in BOOLEAN,
          mc \in {None, Some(0), Some(1), Some(SmallLimit)},
          sx \in {None, Some(SmallLimit - 1)} :
          wargs = Some([text |-> t, platform |-> p, max_chars |-> mc, thread |-> th,
                        style |-> [x |-> sx, linkedin |-> None]])
    /\ wout = None
    /\ ToolsIdle

ApplyBasicWarnings ==
    /\ pc = "warn"
    /\ wout = None
    /\ wout' = Some(_basic_warnings(wargs[1].style, wargs[1].text, wargs[1].platform,
                                    wargs[1].max_chars, wargs[1].thread))
    /\ UNCHANGED <<genVars, wargs, toolVars>>

NextWarn == ApplyBasicWarnings

SpecWarn == InitWarn /\ [][NextWarn]_vars


\* generate() and _basic_warnings are not running
GenIdle ==
    /\ Idle
    /\ env = Env(FALSE, FALSE, FALSE, FALSE, "", FALSE, None)
    /\ entry = "cli"
    /\ req = Request(S_x)
    /\ wargs = None /\ wout = None

(***************************************************************************)
(* Dates.  A datetime is a record of year, month, day and hour (the        *)
(* modelled inputs have no minutes); datetime(...) raises ValueError       *)
(* outside the proleptic Gregorian calendar of years MINYEAR..MAXYEAR.     *)
(***************************************************************************)
MINYEAR == 1
MAXYEAR == 9999

DT(year, month, day, hour) == [year |-> year, month |-> month, day |-> day, hour |-> hour]
NoDT == DT(0, 0, 0, 0)

\* the calendar of the datetime module
IsLeap(year) == year % 4 = 0 /\ (year % 100 # 0 \/ year % 400 = 0)
DaysInMonth(year, month) ==
    IF month = 2 THEN (IF IsLeap(year) THEN 29 ELSE 28)
    ELSE IF month \in {4, 6, 9, 11} THEN 30 ELSE 31
DateValid(year, month, day) ==
    /\ year \in MINYEAR..MAXYEAR
    /\ month \in 1..12
    /\ day \in 1..DaysInMonth(year, month)

DaysBeforeYear(year) ==
    (year - 1) * 365 + ((year - 1) \div 4) - ((year - 1) \div 100) + ((year - 1) \div 400)
RECURSIVE DaysBeforeMonth(_, _)
DaysBeforeMonth(year, month) ==
    IF month = 1 THEN 0
    ELSE DaysBeforeMonth(year, month - 1) + DaysInMonth(year, month - 1)

\* date.toordinal(): 0001-01-01 is day 1
toordinal(d) == DaysBeforeYear(d.year) + DaysBeforeMonth(d.year, d.month) + d.day

\* date.fromordinal() of a day not after year hi and at most back days before it
fromordinal(n, hi, back) ==
    LET lo == IF hi - (back \div 365) - 1 < MINYEAR THEN MINYEAR
              ELSE hi - (back \div 365) - 1
        year == CHOOSE y \in lo..hi : DaysBeforeYear(y) < n /\ n <= DaysBeforeYear(y + 1)
        month == CHOOSE m \in 1..12 :
                    /\ DaysBeforeMonth(year, m) < n - DaysBeforeYear(year)
                    /\ n - DaysBeforeYear(year) <= DaysBeforeMonth(year, m)
                                                    + DaysInMonth(year, m)
    IN DT(year, month, n - DaysBeforeYear(year) - DaysBeforeMonth(year, month), 0)

(***************************************************************************)
(* Decimal numbers in texts.                                               *)
(***************************************************************************)
DigitChars == <<"0", "1", "2", "3", "4", "5", "6", "7", "8", "9">>
DigitVal(c) == (CHOOSE k \in 1..10 : DigitChars[k] = c) - 1
IsDigits(s) == s # <<>> /\ \A k \in 1..Len(s) : IsDigit(s[k])

\* int(text) of a text of digits
RECURSIVE ParseInt(_)
ParseInt(s) ==
    IF s = <<>> THEN 0
    ELSE 10 * ParseInt(SubSeq(s, 1, Len(s) - 1)) + DigitVal(s[Len(s)])

\* str(n), n >= 0
RECURSIVE Str(_)
Str(n) == IF n < 10 THEN <<DigitChars[n + 1]>>
          ELSE Str(n \div 10) \o <<DigitChars[(n % 10) + 1]>>

\* n in w digits, zero-padded
RECURSIVE Pad(_, _)
Pad(n, w) == IF w = 0 THEN <<>> ELSE Pad(n \div 10, w - 1) \o <<DigitChars[(n % 10) + 1]>>

\* str.replace(old, new)
RECURSIVE replace(_, _, _)
replace(s, old, new) ==
    LET hits == {k \in 1..(Len(s) - Len(old) + 1) : SubSeq(s, k, k + Len(old) - 1) = old}
    IN IF hits = {} THEN s
       ELSE SubSeq(s, 1, Min(hits) - 1) \o new
            \o replace(SubSeq(s, Min(hits) + Len(old), Len(s)), old, new)

(***************************************************************************)
(* app/nithin_corpus_utils.py: parse_date, on the date formats of the      *)
(* modelled inputs: YYYY-MM-DD, alone or followed by T or a space and      *)
(* HH:MM:SS (datetime.isoformat() writes the first of these two).          *)
(***************************************************************************)
IsoDateLen == 10       \* len("YYYY-MM-DD")
IsoDateTimeLen == 19   \* len("YYYY-MM-DDTHH:MM:SS")

\* datetime.isoformat()
isoformat(dt) ==
    Pad(dt.year, 4) \o <<"-">> \o Pad(dt.month, 2) \o <<"-">> \o Pad(dt.day, 2)
    \o <<"T">> \o Pad(dt.hour, 2) \o <<":", "0", "0", ":", "0", "0">>

IsIsoDate(s) ==
    /\ Len(s) = IsoDateLen
    /\ s[5] = "-" /\ s[8] = "-"
    /\ IsDigits(SubSeq(s, 1, 4)) /\ IsDigits(SubSeq(s, 6, 7)) /\ IsDigits(SubSeq(s, 9, 10))
    /\ DateValid(ParseInt(SubSeq(s, 1, 4)), ParseInt(SubSeq(s, 6, 7)),
                 ParseInt(SubSeq(s, 9, 10)))

\* the part of an ISO timestamp after the date: T or a space, then HH:MM:SS
IsIsoTime(s) ==
    /\ Len(s) = IsoDateTimeLen - IsoDateLen
    /\ s[1] \in {"T", " "} /\ s[4] = ":" /\ s[7] = ":"
    /\ IsDigits(SubSeq(s, 2, 3)) /\ IsDigits(SubSeq(s, 5, 6)) /\ IsDigits(SubSeq(s, 8, 9))
    /\ ParseInt(SubSeq(s, 2, 3)) < 24 /\ ParseInt(SubSeq(s, 5, 6)) < 60
    /\ ParseInt(SubSeq(s, 8, 9)) < 60

\* parse_date: Optional datetime (naive results are taken as UTC)
parse_date(value) ==
    IF ~Truthy(value) THEN None
    ELSE LET cleaned == strip(value[1])
             day == SubSeq(cleaned, 1, IsoDateLen)
             time == SubSeq(cleaned, IsoDateLen + 1, Len(cleaned))
         IN IF Len(cleaned) >= IsoDateLen /\ IsIsoDate(day)
               /\ (time = <<>> \/ IsIsoTime(time))
            THEN Some(DT(ParseInt(SubSeq(day, 1, 4)), ParseInt(SubSeq(day, 6, 7)),
                         ParseInt(SubSeq(day, 9, 10)),
                         IF time = <<>> THEN 0 ELSE ParseInt(SubSeq(time, 2, 3))))
            ELSE None

(***************************************************************************)
(* scripts/ingest_linkedin_pdf.py: is_time_line and parse_activity_date    *)
(***************************************************************************)
Bullet == "(bullet)"     \* the character U+2022
S_ago == <<"a", "g", "o">>
RelativeUnits == {<<"d">>, <<"w">>, <<"m", "o">>, <<"m">>, <<"y">>, <<"y", "r">>, <<"h">>,
                  <<"h", "r">>, <<"h", "r", "s">>, <<"h", "o", "u", "r", "s">>}

\* the leading digits of a text: group 1 of the pattern
LeadingDigits(s) ==
    LET stops == {k \in 1..Len(s) : ~IsDigit(s[k])}
    IN IF stops = {} THEN s ELSE SubSeq(s, 1, Min(stops) - 1)

\* re.fullmatch(r"(\d+)\s*(d|w|mo|m|y|yr|h|hr|hrs|hours)", cleaned, re.IGNORECASE):
\* None, or the two groups
relative_match(cleaned) ==
    LET digits == LeadingDigits(cleaned)
        unit == lstrip(SubSeq(cleaned, Len(digits) + 1, Len(cleaned)))
    IN IF digits # <<>> /\ lower(unit) \in RelativeUnits
       THEN Some([value |-> digits, unit |-> unit])
       ELSE None

\* is_time_line
is_time_line(line) ==
    LET cleaned == strip(replace(line, <<Bullet>>, <<>>))
    IN IF cleaned = <<>> THEN FALSE
       ELSE IF parse_date(Some(cleaned)) # None THEN TRUE
       ELSE relative_match(cleaned) # None

Resolved(dt) == [status |-> "ok", dt |-> dt]
NoMatch == [status |-> "none", dt |-> NoDT]
Raised == [status |-> "raised", dt |-> NoDT]

\* ref_dt - timedelta(hours=hours): OverflowError before 0001-01-01T00:00
minus_hours(ref_dt, hours) ==
    LET total == toordinal(ref_dt) * 24 - hours
    IN IF total < 24 THEN Raised
       ELSE Resolved([fromordinal(total \div 24, ref_dt.year, (hours \div 24) + 1)
                          EXCEPT !.hour = total % 24])

\* ref_dt.replace(year=...) and its 'Feb 29 fallback'
minus_years(ref_dt, value) ==
    LET year == ref_dt.year - value
    IN IF DateValid(year, ref_dt.month, ref_dt.day)
       THEN Resolved(DT(year, ref_dt.month, ref_dt.day, 0))
       ELSE IF DateValid(year, 2, 28) THEN Resolved(DT(year, 2, 28, 0))
       ELSE Raised

\* while month <= 0: month += 12; year -= 1
RECURSIVE month_borrow(_, _)
month_borrow(month, year) ==
    IF month <= 0 THEN month_borrow(month + 12, year - 1)
    ELSE [month |-> month, year |-> year]

\* the table of month lengths of parse_activity_date
month_table(year) ==
    <<31, IF year % 4 = 0 /\ (year % 100 # 0 \/ year % 400 = 0) THEN 29 ELSE 28,
      31, 30, 31, 30, 31, 31, 30, 31, 30, 31>>

\* min(ref_dt.day, [...][month - 1])
clamped_day(ref_day, limit) == IF ref_day < limit THEN ref_day ELSE limit

minus_months(ref_dt, value) ==
    LET b == month_borrow(ref_dt.month - value, ref_dt.year)
        day == clamped_day(ref_dt.day, month_table(b.year)[b.month])
    IN IF DateValid(b.year, b.month, day) THEN Resolved(DT(b.year, b.month, day, 0))
       ELSE Raised

\* parse_activity_date: a datetime, no match, or an error that leaves the call
parse_activity_date(label, reference_date) ==
    LET cleaned == strip(replace(strip(replace(label, <<Bullet>>, <<>>)), S_ago, <<>>))
        absolute == parse_date(Some(cleaned))
        match == relative_match(cleaned)
        ref_dt == DT(reference_date.year, reference_date.month, reference_date.day, 0)
    IN IF absolute # None THEN Resolved(absolute[1])
       ELSE IF match = None THEN NoMatch
       ELSE LET value == ParseInt(match[1].value)
                unit == lower(match[1].unit)
            IN IF unit = <<"d">> THEN minus_hours(ref_dt, 24 * value)
               ELSE IF unit = <<"w">> THEN minus_hours(ref_dt, 7 * 24 * value)
               ELSE IF unit \in {<<"h">>, <<"h", "r">>, <<"h", "r", "s">>,
                                 <<"h", "o", "u", "r", "s">>}
               THEN minus_hours(ref_dt, value)
               ELSE IF unit \in {<<"y">>, <<"y", "r">>} THEN minus_years(ref_dt, value)
               ELSE IF unit \in {<<"m", "o">>, <<"m">>} THEN minus_months(ref_dt, value)
               ELSE NoMatch

(***************************************************************************)
(* parse_activity_date on its own, on enumerated labels and dates.         *)
(***************************************************************************)
MaxCount == 14         \* the counts 0..MaxCount of the enumerated relative ages

ReferenceYears == {2, 4, 1900, 2000, 2023, 2024}
ReferenceDates ==
    {d \in [year : ReferenceYears, month : {1, 2, 3, 12}, day : {1, 28, 29, 30, 31}] :
        DateValid(d.year, d.month, d.day)}
Counts == (0..MaxCount) \cup {24, 25, 48, 100}
UnitTexts == {<<"d">>, <<"w">>, <<"h">>, <<"y">>, <<"y", "r">>, <<"m", "o">>, <<"m">>}
\* counts of years around the reference year
YearCounts == {2023, 2024, 2025}

\* the label of a relative age, as the export prints it
RelativeLabel(n, unit) == Str(n) \o unit

OtherLabels ==
    {[label |-> <<Bullet, " ">> \o RelativeLabel(3, <<"d">>) \o <<" ", Bullet>>,
      n |-> 3, unit |-> <<"d">>],
     [label |-> <<"3", " ", "M", "O", " ", "a", "g", "o">>, n |-> 3, unit |-> <<"m", "o">>],
     [label |-> <<"3", "m", "i", "n">>, n |-> 0, unit |-> <<>>],
     [label |-> <<"l", "i", "k", "e">>, n |-> 0, unit |-> <<>>],
     [label |-> <<"2", "0", "2", "4", "-", "0", "2", "-", "3", "0">>, n |-> 0, unit |-> <<>>],
     [label |-> <<"2", "0", "2", "4", "-", "0", "2", "-", "2", "9">>, n |-> 0, unit |-> <<>>]}

InitDate ==
    /\ pc = "date"
    /\ GenIdle
    /\ \E ref \in ReferenceDates :
          \/ \E n \in Counts, u \in UnitTexts :
                dargs = Some([label |-> RelativeLabel(n, u), reference_date |-> ref,
                              n |-> n, unit |-> u])
          \/ \E n \in YearCounts, u \in {<<"y">>, <<"d">>} :
                dargs = Some([label |-> RelativeLabel(n, u), reference_date |-> ref,
                              n |-> n, unit |-> u])
          \/ \E o \in OtherLabels :
                dargs = Some([label |-> o.label, reference_date |-> ref,
                              n |-> o.n, unit |-> o.unit])
    /\ dout = None
    /\ ExtractIdle /\ CorpusIdle /\ IngestIdle /\ SingletonIdle

ApplyParseActivityDate ==
    /\ pc = "date"
    /\ dout = None
    /\ dout' = Some(parse_activity_date(dargs[1].label, dargs[1].reference_date))
    /\ UNCHANGED <<genVars, warnVars, dargs, extractVars, corpusVars, ingestVars,
                   singletonVars>>

NextDate == ApplyParseActivityDate

SpecDate == InitDate /\ [][NextDate]_vars


(***************************************************************************)
(* scripts/ingest_linkedin_pdf.py: clean_content and extract_posts         *)
(***************************************************************************)
NOISE_LINES ==
    {<<"l", "i", "k", "e">>,
     <<"c", "o", "m", "m", "e", "n", "t">>,
     <<"r", "e", "p", "o", "s", "t">>,
     <<"s", "e", "n", "d">>,
     <<"f", "o", "l", "l", "o", "w", "i", "n", "g">>,
     <<"m", "e", "s", "s", "a", "g", "e">>,
     <<"a", "l", "l", " ", "a", "c", "t", "i", "v", "i", "t", "y">>,
     <<"p", "o", "s", "t", "s">>,
     <<"c", "o", "m", "m", "e", "n", "t", "s">>,
     <<"v", "i", "d", "e", "o", "s">>,
     <<"i", "m", "a", "g", "e", "s">>,
     <<"m", "o", "r", "e">>,
     <<"m", "e">>,
     <<"f", "o", "r", " ", "b", "u", "s", "i", "n", "e", "s", "s">>,
     <<"r", "e", "a", "c", "t", "i", "v", "a", "t", "e">>}

S_Anchor == <<"N", "i", "t", "h", "i", "n", " ", "K", "a", "m", "a", "t", "h">>
S_premium == <<"p", "r", "e", "m", "i", "u", "m", ":">>
S_reactivate == <<"r", "e", "a", "c", "t", "i", "v", "a", "t", "e">>
S_comments == <<" ", "c", "o", "m", "m", "e", "n", "t", "s">>
S_reposts == <<" ", "r", "e", "p", "o", "s", "t", "s">>
S_and == <<"a", "n", "d", " ">>
S_others == <<" ", "o", "t", "h", "e", "r", "s">>
S_linkedin_pdf == <<"l", "i", "n", "k", "e", "d", "i", "n", "_", "p", "d", "f">>
ForwardWindow == 12      \* range(i + 1, min(i + 12, len(lines)))

IsCount(c) == IsDigit(c) \/ c = ","

\* re.fullmatch(r"\d+:\d+.*", text)
looks_like_clock(t) ==
    LET d == LeadingDigits(t)
    IN /\ d # <<>>
       /\ Len(t) >= Len(d) + 2
       /\ t[Len(d) + 1] = ":"
       /\ IsDigit(t[Len(d) + 2])

\* re.fullmatch(r"[\d,]+", text)
is_counter(t) == t # <<>> /\ \A k \in 1..Len(t) : IsCount(t[k])

\* re.search(r"[\d,]+" + word, text)
count_then(t, word) ==
    \E k \in 1..(Len(t) - Len(word)) :
        IsCount(t[k]) /\ SubSeq(t, k + 1, k + Len(word)) = word

\* re.search(r"and [\d,]+ others", text)
and_others(t) ==
    \E k \in 1..Len(t) :
        /\ StartsAt(t, k, S_and)
        /\ LET rest == SubSeq(t, k + Len(S_and), Len(t))
               stops == {n \in 1..Len(rest) : ~IsCount(rest[n])}
               m == IF stops = {} THEN Len(rest) + 1 ELSE Min(stops)
           IN m > 1 /\ StartsAt(rest, m, S_others)

\* re.fullmatch(r"\d+x", text)
is_multiplier(t) ==
    Len(t) >= 2 /\ t[Len(t)] = "x" /\ IsDigits(SubSeq(t, 1, Len(t) - 1))

\* clean_content: TRUE when the (trimmed, non-blank) line is dropped
is_noise(t) ==
    \/ lower(t) \in NOISE_LINES
    \/ StartsAt(lower(t), 1, S_premium)
    \/ StartsAt(lower(t), 1, S_reactivate)
    \/ looks_like_clock(lower(t))
    \/ is_counter(t)
    \/ count_then(lower(t), S_comments)
    \/ count_then(lower(t), S_reposts)
    \/ and_others(lower(t))
    \/ is_multiplier(lower(t))

\* clean_content: the loop over the lines; a blank line is kept as one separator
RECURSIVE clean_lines(_, _)
clean_lines(ls, cleaned) ==
    IF ls = <<>> THEN cleaned
    ELSE LET t == strip(Head(ls))
         IN IF t = <<>>
            THEN clean_lines(Tail(ls),
                             IF cleaned # <<>> /\ cleaned[Len(cleaned)] # <<>>
                             THEN Append(cleaned, <<>>) ELSE cleaned)
            ELSE IF is_noise(t) THEN clean_lines(Tail(ls), cleaned)
            ELSE clean_lines(Tail(ls), Append(cleaned, t))

\* while cleaned and cleaned[-1] == "": cleaned.pop()
RECURSIVE drop_trailing_blanks(_)
drop_trailing_blanks(cleaned) ==
    IF cleaned # <<>> /\ cleaned[Len(cleaned)] = <<>>
    THEN drop_trailing_blanks(SubSeq(cleaned, 1, Len(cleaned) - 1))
    ELSE cleaned

\* clean_content
clean_content(ls) == strip(join(S_NL, drop_trailing_blanks(clean_lines(ls, <<>>))))

Post(p, t, created_at, source) ==
    [platform |-> p, text |-> t, created_at |-> created_at, id |-> None,
     source |-> source]

\* lines = [line.strip() for line in text.splitlines()]
stripped_lines(t) == [k \in 1..Len(splitlines(t)) |-> strip(splitlines(t)[k])]

\* the first time line of the forward window of the anchor at index i (0: none)
date_line_idx(ls, i) ==
    LET last == IF i + ForwardWindow - 1 < Len(ls) THEN i + ForwardWindow - 1 ELSE Len(ls)
        hits == {j \in (i + 1)..last : is_time_line(ls[j])}
    IN IF hits = {} THEN 0 ELSE Min(hits)

\* the index of the first anchor line at or after k (Len(ls) + 1: none)
next_anchor(ls, k) ==
    LET hits == {n \in k..Len(ls) : ls[n] = S_Anchor}
    IN IF hits = {} THEN Len(ls) + 1 ELSE Min(hits)

\* extract_posts: one iteration of the outer loop (indices count from 1)
extract_iteration(x) ==
    IF x.i > Len(x.lines) THEN [x EXCEPT !.status = "returned"]
    ELSE IF x.lines[x.i] # S_Anchor THEN [x EXCEPT !.i = x.i + 1]
    ELSE LET j == date_line_idx(x.lines, x.i)
         IN IF j = 0 THEN [x EXCEPT !.i = x.i + 1]
            ELSE LET dt == parse_activity_date(x.lines[j], x.reference_date)
                     k == next_anchor(x.lines, j + 1)
                     text_block == clean_content(SubSeq(x.lines, j + 1, k - 1))
                 IN IF dt.status = "raised" THEN [x EXCEPT !.status = "raised"]
                    ELSE [x EXCEPT
                            !.posts = IF text_block # <<>>
                                      THEN Append(x.posts,
                                                  Post(S_linkedin, text_block,
                                                       IF dt.status = "ok"
                                                       THEN Some(isoformat(dt.dt))
                                                       ELSE None,
                                                       S_linkedin_pdf))
                                      ELSE x.posts,
                            !.i = k]

(***************************************************************************)
(* extract_posts on enumerated dumps.                                      *)
(***************************************************************************)
MaxDumpLines == 4      \* the enumerated dumps have up to MaxDumpLines lines

L_3d == <<"3", "d">>
L_1mo == <<" ", Bullet, " ", "1", "m", "o", " ">>
L_3000y == <<"3", "0", "0", "0", "y">>
L_hello == <<"h", "e", "l", "l", "o", " ", "a", "l", "l", " ">>
L_like == <<"L", "i", "k", "e">>
DumpLines == {S_Anchor, L_3d, L_1mo, L_3000y, L_hello, L_like, <<>>}
ShortDumps == UNION {[1..n -> DumpLines] : n \in 0..MaxDumpLines}

\* an anchor whose only time line stands k lines after it, then content
WindowDump(k) ==
    <<S_Anchor>> \o Rep(L_hello, k - 1) \o <<L_3d, L_hello, S_Anchor, L_3d, L_hello>>
LongDumps == {WindowDump(ForwardWindow - 1), WindowDump(ForwardWindow)}

ExtractReference == [year |-> 2024, month |-> 3, day |-> 31]

InitExtract ==
    /\ pc = "extract"
    /\ GenIdle
    /\ \E dump \in ShortDumps \cup LongDumps :
          extraction = Some([lines |-> stripped_lines(join(S_NL, dump)),
                             reference_date |-> ExtractReference,
                             i |-> 1, posts |-> <<>>, status |-> "scan"])
    /\ DateIdle /\ CorpusIdle /\ IngestIdle /\ SingletonIdle

ExtractStep ==
    /\ pc = "extract"
    /\ extraction[1].status = "scan"
    /\ extraction' = Some(extract_iteration(extraction[1]))
    /\ UNCHANGED <<genVars, warnVars, dateVars, corpusVars, ingestVars, singletonVars>>

NextExtract == ExtractStep

SpecExtract == InitExtract /\ [][NextExtract]_vars


(***************************************************************************)
(* app/nithin_corpus_utils.py: write_corpus and read_corpus.               *)
(*                                                                         *)
(* The content of the corpus file is a sequence of items.  An item is a    *)
(* character, or the payload of a JSON object: json.dumps(post) is the     *)
(* three items '{', the post, '}', and json.loads reads back exactly that. *)
(***************************************************************************)
Item(c, post) == [c |-> c, post |-> post]
Ch(c) == Item(c, None)
I_NL == Ch("\n")
I_Open == Ch("{")
I_Close == Ch("}")
I_Space == Ch(" ")
I_Hole == Ch("NUL")     \* a byte of a hole left by a write past the end of the file

\* json.dumps(post, ensure_ascii=False)
json_dumps(post) == <<I_Open, Item("", Some(post)), I_Close>>

\* json.loads(line): Optional post (None: JSONDecodeError)
json_loads(line) ==
    IF Len(line) = Len(json_dumps(<<>>)) /\ line[1] = I_Open /\ line[2].post # None
       /\ line[3] = I_Close
    THEN Some(line[2].post[1])
    ELSE None

ItemIsSpace(it) == it.post = None /\ IsSpace(it.c)

\* line.strip() on a line of the file
item_strip(line) ==
    LET keep == {k \in 1..Len(line) : ~ItemIsSpace(line[k])}
    IN IF keep = {} THEN <<>>
       ELSE SubSeq(line, Min(keep), CHOOSE k \in keep : \A n \in keep : n <= k)

\* for line in f: the lines of the file, without their newline
RECURSIVE file_lines(_)
file_lines(content) ==
    LET nl == {k \in 1..Len(content) : content[k] = I_NL}
    IN IF content = <<>> THEN <<>>
       ELSE IF nl = {} THEN <<content>>
       ELSE <<SubSeq(content, 1, Min(nl) - 1)>>
            \o file_lines(SubSeq(content, Min(nl) + 1, Len(content)))

\* mutant: a malformed line ends the read
RECURSIVE read_lines_stop(_)
read_lines_stop(ls) ==
    IF ls = <<>> THEN <<>>
    ELSE LET line == item_strip(Head(ls))
         IN IF line = <<>> THEN read_lines_stop(Tail(ls))
            ELSE IF json_loads(line) = None THEN <<>>
            ELSE <<json_loads(line)[1]>> \o read_lines_stop(Tail(ls))

\* read_corpus: the loop over the lines
RECURSIVE read_lines(_)
read_lines(ls) ==
    IF ls = <<>> THEN <<>>
    ELSE LET line == item_strip(Head(ls))
         IN IF line = <<>> THEN read_lines(Tail(ls))
            ELSE IF json_loads(line) = None THEN read_lines(Tail(ls))
            ELSE <<json_loads(line)[1]>> \o read_lines(Tail(ls))

\* read_corpus
read_corpus(file) == IF file = None THEN <<>> ELSE read_lines(file_lines(file[1]))

\* mutant: the file is always opened for appending
open_mode_always_append(append) == "a"

\* mode = "a" if append else "w"
open_mode(append) == IF append THEN "a" ELSE "w"

\* open(path, mode): the file after the open
opened(file, mode) == IF mode = "w" \/ file = None THEN Some(<<>>) ELSE file

\* json.dumps(post, ensure_ascii=False) + "\n"
record_line(post) == json_dumps(post) \o <<I_NL>>

\* the lines of a list of posts
RECURSIVE record_lines(_)
record_lines(posts) ==
    IF posts = <<>> THEN <<>>
    ELSE record_line(Head(posts)) \o record_lines(Tail(posts))

\* data written at offset pos of the file
written_at(content, pos, data) ==
    LET before == IF pos <= Len(content) THEN SubSeq(content, 1, pos)
                  ELSE content \o Rep(I_Hole, pos - Len(content))
        after == IF pos + Len(data) < Len(content)
                 THEN SubSeq(content, pos + Len(data) + 1, Len(content))
                 ELSE <<>>
    IN before \o data \o after

\* mutant: a file opened for appending writes at its own offset
os_write_at_offset(content, pos, data, mode) == written_at(content, pos, data)

\* one write() of the operating system: at the end of the file in mode "a"
\* (O_APPEND), at the offset of the file object in mode "w"
os_write(content, pos, data, mode) ==
    IF mode = "a" THEN content \o data ELSE written_at(content, pos, data)

\* write_corpus, uninterrupted: the file after the call
write_corpus(file, posts, append) ==
    Some(os_write(opened(file, open_mode(append))[1],
                  IF open_mode(append) = "w" THEN 0 ELSE Len(opened(file, "a")[1]),
                  record_lines(posts), open_mode(append)))

(***************************************************************************)
(* Writers and readers of one corpus file.  A writer is one call of        *)
(* write_corpus: it opens the file, passes one line per post to f.write,   *)
(* and closes the file.  f.write hands whole lines to the buffer of the    *)
(* file object; the buffer is written out with one write() when it fills   *)
(* (its size is not modelled: any point between two lines may be such a    *)
(* point) and when the file is closed.                                     *)
(***************************************************************************)
MaxWrite == 2          \* posts of one call of write_corpus

S_nitter_pdf == <<"n","i","t","t","e","r","_","p","d","f">>
P1 == Post(S_x, <<"a">>, None, S_nitter_pdf)
P2 == Post(S_linkedin, <<"b">>, None, S_linkedin_pdf)
P3 == Post(S_x, <<"c">>, None, S_nitter_pdf)
PostLists == UNION {[1..n -> {P1, P2}] : n \in 0..MaxWrite}

\* files in the format of the corpus: every line ends with a newline; a line may
\* be blank, padded with spaces, or no JSON object
FormattedFiles ==
    {None, Some(<<>>), Some(record_line(P3)),
     Some(record_line(P3) \o <<I_NL>> \o <<I_Open, I_NL>>
          \o <<I_Space>> \o record_line(P1))}
\* files whose last line has no newline
OtherFiles ==
    {Some(record_line(P3) \o <<Ch("#"), I_NL, I_Space, I_NL>> \o json_dumps(P1)),
     Some(record_line(P3) \o <<I_Open>>)}

Writer(posts, append) ==
    [posts |-> posts, append |-> append, state |-> "new", written |-> 0,
     buffer |-> <<>>, pos |-> 0]

InitCorpus ==
    /\ pc = "corpus"
    /\ GenIdle
    /\ DateIdle /\ ExtractIdle /\ IngestIdle /\ SingletonIdle
    /\ \/ /\ corpus_file \in FormattedFiles
          /\ \E a \in PostLists, m \in BOOLEAN : writers = <<Writer(a, m)>>
       \/ /\ corpus_file \in FormattedFiles
          /\ \E a \in PostLists, b \in PostLists, m \in BOOLEAN, n \in BOOLEAN :
                writers = <<Writer(a, m), Writer(b, n)>>
       \/ /\ corpus_file \in OtherFiles
          /\ writers = <<>>
    /\ corpus_was = corpus_file
    /\ read_back = None

\* with open(path, mode) as f
WriterOpen(w) ==
    /\ writers[w].state = "new"
    /\ corpus_file' = opened(corpus_file, open_mode(writers[w].append))
    /\ writers' = [writers EXCEPT ![w].state = "open",
                                  ![w].pos = IF open_mode(writers[w].append) = "w" THEN 0
                                             ELSE Len(corpus_file'[1])]
    /\ UNCHANGED <<corpus_was, read_back>>

\* f.write(json.dumps(post, ensure_ascii=False) + "\n")
WriterWrite(w) ==
    /\ writers[w].state = "open"
    /\ writers[w].written < Len(writers[w].posts)
    /\ writers' = [writers EXCEPT
                     ![w].written = @ + 1,
                     ![w].buffer = @ \o record_line(writers[w].posts[writers[w].written + 1])]
    /\ UNCHANGED <<corpus_file, corpus_was, read_back>>

\* the buffer of the file object is written out
flushed(w) ==
    /\ corpus_file' = Some(os_write(corpus_file[1], writers[w].pos, writers[w].buffer,
                                    open_mode(writers[w].append)))
    /\ UNCHANGED <<corpus_was, read_back>>

WriterFlush(w) ==
    /\ writers[w].state = "open"
    /\ writers[w].buffer # <<>>
    /\ flushed(w)
    /\ writers' = [writers EXCEPT ![w].buffer = <<>>,
                                  ![w].pos = @ + Len(writers[w].buffer)]

\* the end of the with block: the loop is over, the file is closed
WriterClose(w) ==
    /\ writers[w].state = "open"
    /\ writers[w].written = Len(writers[w].posts)
    /\ flushed(w)
    /\ writers' = [writers EXCEPT ![w].state = "closed", ![w].buffer = <<>>,
                                  ![w].pos = @ + Len(writers[w].buffer)]

\* read_corpus(path)
ReadCorpus ==
    /\ read_back = None
    /\ \A w \in 1..Len(writers) : writers[w].state \in {"new", "closed"}
    /\ read_back' = Some([of |-> corpus_file, posts |-> read_corpus(corpus_file)])
    /\ UNCHANGED <<corpus_file, corpus_was, writers>>

NextCorpus ==
    /\ pc = "corpus"
    /\ \/ \E w \in 1..Len(writers) : WriterOpen(w)
       \/ \E w \in 1..Len(writers) : WriterWrite(w)
       \/ \E w \in 1..Len(writers) : WriterFlush(w)
       \/ \E w \in 1..Len(writers) : WriterClose(w)
       \/ ReadCorpus
    /\ UNCHANGED <<genVars, warnVars, dateVars, extractVars, ingestVars, singletonVars>>

SpecCorpus == InitCorpus /\ [][NextCorpus]_vars


(***************************************************************************)
(* app/nithin_corpus_utils.py: normalize_text, tokenize, split_sentences   *)
(* and analyze_posts.                                                      *)
(***************************************************************************)
STOPWORDS ==
    {<<"t", "h", "e">>, <<"a">>, <<"a", "n">>, <<"a", "n", "d">>, <<"o", "r">>,
     <<"b", "u", "t">>, <<"i", "f">>, <<"t", "h", "e", "n">>, <<"t", "h", "i", "s">>,
     <<"t", "h", "a", "t">>, <<"t", "h", "e", "s", "e">>, <<"t", "h", "o", "s", "e">>,
     <<"i", "s">>, <<"a", "r", "e">>, <<"w", "a", "s">>, <<"w", "e", "r", "e">>,
     <<"b", "e">>, <<"b", "e", "e", "n">>, <<"b", "e", "i", "n", "g">>, <<"t", "o">>,
     <<"o", "f">>, <<"i", "n">>, <<"o", "n">>, <<"f", "o", "r">>, <<"w", "i", "t", "h">>,
     <<"a", "s">>, <<"a", "t">>, <<"b", "y">>, <<"f", "r", "o", "m">>, <<"i", "t">>,
     <<"i", "t", "s">>, <<"w", "e">>, <<"o", "u", "r">>, <<"y", "o", "u">>,
     <<"y", "o", "u", "r">>, <<"i">>, <<"m", "e">>, <<"m", "y">>, <<"u", "s">>}

S_http == <<"h", "t", "t", "p">>
S_www == <<"w", "w", "w", ".">>

\* the end of the run of non-space characters that starts at position k
RECURSIVE run_end(_, _)
run_end(s, k) == IF k < Len(s) /\ ~IsSpace(s[k + 1]) THEN run_end(s, k + 1) ELSE k

\* re.sub(r"http\S+", "", text), from position k on
RECURSIVE remove_urls(_, _)
remove_urls(s, k) ==
    IF k > Len(s) THEN <<>>
    ELSE IF StartsAt(s, k, S_http) /\ k + Len(S_http) <= Len(s)
            /\ ~IsSpace(s[k + Len(S_http)])
         THEN remove_urls(s, run_end(s, k + Len(S_http)) + 1)
         ELSE <<s[k]>> \o remove_urls(s, k + 1)

\* re.sub(r"\s+", " ", text)
collapse_spaces(s) ==
    LET kept == {k \in 1..Len(s) : ~IsSpace(s[k]) \/ k = 1 \/ ~IsSpace(s[k - 1])}
        pick[k \in 0..Len(s)] ==
            IF k = 0 THEN <<>>
            ELSE IF k \in kept THEN pick[k - 1] \o <<IF IsSpace(s[k]) THEN " " ELSE s[k]>>
            ELSE pick[k - 1]
    IN pick[Len(s)]

\* mutant: the text is not trimmed
normalize_text_untrimmed(t) == collapse_spaces(remove_urls(t, 1))

\* normalize_text
normalize_text(t) == strip(collapse_spaces(remove_urls(t, 1)))

\* a character of the class [A-Za-z0-9'] of a lowercased text
IsWordChar(c) ==
    c \in {"a", "b", "c", "d", "e", "f", "g", "h", "i", "j", "k", "l", "m", "n", "o", "p",
           "q", "r", "s", "t", "u", "v", "w", "x", "y", "z", "'"} \/ IsDigit(c)

\* the maximal runs of the characters of s that keep marks, from position k on
RECURSIVE runs(_, _, _, _)
runs(s, k, cur, keep) ==
    IF k > Len(s) THEN (IF cur = <<>> THEN <<>> ELSE <<cur>>)
    ELSE IF keep[k] THEN runs(s, k + 1, cur \o <<s[k]>>, keep)
    ELSE (IF cur = <<>> THEN <<>> ELSE <<cur>>) \o runs(s, k + 1, <<>>, keep)

\* tokenize: re.findall(r"[A-Za-z0-9']+", text.lower())
tokenize(t) == runs(lower(t), 1, <<>>, [k \in 1..Len(t) |-> IsWordChar(lower(t)[k])])

\* split_sentences: [s.strip() for s in re.split(r"[.!?]+", text) if s.strip()]
split_sentences(t) ==
    LET parts == runs(t, 1, <<>>, [k \in 1..Len(t) |-> t[k] \notin {".", "!", "?"}])
        full == SelectSeq(parts, LAMBDA s : strip(s) # <<>>)
    IN [k \in 1..Len(full) |-> strip(full[k])]

Emoji == "(emoji)"      \* a character of one of the ranges of is_emoji
is_emoji(c) == c = Emoji

RECURSIVE Sum(_)
Sum(ns) == IF ns = <<>> THEN 0 ELSE Head(ns) + Sum(Tail(ns))

RECURSIVE Flatten(_)
Flatten(lists) == IF lists = <<>> THEN <<>> ELSE Head(lists) \o Flatten(Tail(lists))

\* round(num / den, digits) in units of 1 / scale, halves to the even neighbour
Round(num, den, scale) ==
    LET q == (num * scale) \div den
        r == (num * scale) % den
    IN IF 2 * r < den THEN q
       ELSE IF 2 * r > den THEN q + 1
       ELSE IF q % 2 = 0 THEN q ELSE q + 1

AvgScale == 100       \* round(..., 2)
RateScale == 1000     \* round(..., 3)
TopOpeners == 8       \* most_common(8)
TopPhrases == 12      \* most_common(12)
PhraseWords == 3      \* words[:3], words[-3:], words[i:i+3]

\* Counter(items).most_common(n): by count, ties in the order of first insertion
most_common(items, n) ==
    LET first == {k \in 1..Len(items) : \A j \in 1..(k - 1) : items[j] # items[k]}
        cnt(k) == Cardinality({j \in 1..Len(items) : items[j] = items[k]})
        rank(k) == Cardinality({j \in first : cnt(j) > cnt(k) \/ (cnt(j) = cnt(k) /\ j < k)})
        sorted == [r \in 1..Cardinality(first) |-> items[CHOOSE k \in first : rank(k) = r - 1]]
    IN Take(sorted, n)

\* words[i:i+3] for i in range(len(words) - 2)
trigrams(words) ==
    [k \in 1..(IF Len(words) < PhraseWords THEN 0 ELSE Len(words) - PhraseWords + 1) |->
        SubSeq(words, k, k + PhraseWords - 1)]

AnalyzedPlatforms == {S_x, S_linkedin}

\* per_platform: the posts of each analyzed platform, in corpus order
per_platform(posts) ==
    [p \in AnalyzedPlatforms |-> SelectSeq(posts, LAMBDA post : post.platform = p)]

\* mutant: a platform without posts is measured too
measured_all(pp) == DOMAIN pp

\* if not items: continue
measured(pp) == {p \in DOMAIN pp : pp[p] # <<>>}

AtLeastOne(n) == IF n < 1 THEN 1 ELSE n      \* max(n, 1)

\* the measures of the posts of one platform
measures(items) ==
    LET texts == SelectSeq([k \in 1..Len(items) |-> normalize_text(items[k].text)],
                           LAMBDA t : t # <<>>)
        counted == SelectSeq(items, LAMBDA post : normalize_text(post.text) # <<>>)
        words == [k \in 1..Len(texts) |-> tokenize(texts[k])]
        word_counts == [k \in 1..Len(texts) |-> Len(words[k])]
        sentences == Flatten([k \in 1..Len(texts) |-> split_sentences(texts[k])])
        sentence_lengths == [k \in 1..Len(sentences) |-> Len(tokenize(sentences[k]))]
        question_posts == Len(SelectSeq(texts, LAMBDA t : Contains(t, "?")))
        emoji_posts == Len(SelectSeq(texts, LAMBDA t : \E k \in 1..Len(t) : is_emoji(t[k])))
        link_posts ==
            Len(SelectSeq(counted, LAMBDA post : \E k \in 1..Len(post.text) :
                              StartsAt(post.text, k, S_http) \/ StartsAt(post.text, k, S_www)))
        long == SelectSeq(words, LAMBDA w : Len(w) >= PhraseWords)
        openers == [k \in 1..Len(long) |-> join(<<" ">>, SubSeq(long[k], 1, PhraseWords))]
        closers == [k \in 1..Len(long) |->
                       join(<<" ">>, SubSeq(long[k], Len(long[k]) - PhraseWords + 1,
                                            Len(long[k])))]
        phrases == SelectSeq(Flatten([k \in 1..Len(words) |-> trigrams(words[k])]),
                             LAMBDA ph : \E k \in 1..Len(ph) : ph[k] \notin STOPWORDS)
    IN [avg_words_per_post |-> Round(Sum(word_counts), AtLeastOne(Len(word_counts)), AvgScale),
        avg_sentence_words |->
            Round(Sum(sentence_lengths), AtLeastOne(Len(sentence_lengths)), AvgScale),
        question_rate |-> Round(question_posts, AtLeastOne(Len(items)), RateScale),
        emoji_rate |-> Round(emoji_posts, AtLeastOne(Len(items)), RateScale),
        link_rate |-> Round(link_posts, AtLeastOne(Len(items)), RateScale),
        common_openers |-> most_common(openers, TopOpeners),
        common_closers |-> most_common(closers, TopOpeners),
        common_phrases |->
            most_common([k \in 1..Len(phrases) |-> join(<<" ">>, phrases[k])], TopPhrases)]

DerivedMaps == {"avg_words_per_post", "avg_sentence_words", "question_rate", "emoji_rate",
                "link_rate", "common_openers", "common_closers", "common_phrases"}

\* analyze_posts: the derived section (averages in hundredths, rates in thousandths)
analyze_posts(posts, today) ==
    LET pp == per_platform(posts)
        of(key) == [p \in measured(pp) |-> measures(pp[p])[key]]
    IN [analysis_date |-> today,
        sample_size |-> [p \in DOMAIN pp |-> Len(pp[p])],
        avg_words_per_post |-> of("avg_words_per_post"),
        avg_sentence_words |-> of("avg_sentence_words"),
        question_rate |-> of("question_rate"),
        emoji_rate |-> of("emoji_rate"),
        link_rate |-> of("link_rate"),
        common_openers |-> of("common_openers"),
        common_closers |-> of("common_closers"),
        common_phrases |-> of("common_phrases")]


(***************************************************************************)
(* scripts/ingest_linkedin_pdf.py, scripts/ingest_nitter_pdf.py and        *)
(* scripts/scrape_public_posts.py: main, after the candidate posts have    *)
(* been extracted.  The three scripts share the loop that normalizes,      *)
(* filters and deduplicates the candidates, the corpus write and the       *)
(* update of the style profile.                                            *)
(***************************************************************************)
\* a < b for two datetimes
dt_before(a, b) ==
    \/ a.year < b.year
    \/ a.year = b.year /\ a.month < b.month
    \/ a.year = b.year /\ a.month = b.month /\ a.day < b.day
    \/ a.year = b.year /\ a.month = b.month /\ a.day = b.day /\ a.hour < b.hour

Args(append, min_words, since, until, update_style, force_update_style) ==
    [append |-> append, min_words |-> min_words, since |-> since, until |-> until,
     update_style |-> update_style, force_update_style |-> force_update_style]

\* mutant: the key keeps the case of the text
dedup_key_case_sensitive(post) == post.platform \o <<":">> \o post.text

\* key = post["platform"] + ":" + post["text"].lower()
dedup_key(post) == post.platform \o <<":">> \o lower(post.text)

\* parse_date(args.since) if args.since else None
bound_dt(arg) == IF Truthy(arg) THEN parse_date(arg) ELSE None

\* one iteration of the loop over the candidate posts
filter_iteration(g) ==
    LET post == [g.posts[g.idx + 1] EXCEPT !.text = normalize_text(@)]
        since_dt == bound_dt(g.args.since)
        until_dt == bound_dt(g.args.until)
        dt == parse_date(post.created_at)
        next == [g EXCEPT !.idx = @ + 1]
        key == dedup_key(post)
    IN IF post.text = <<>> THEN next
       ELSE IF Len(tokenize(post.text)) < g.args.min_words THEN next
       ELSE IF (since_dt # None \/ until_dt # None) /\ dt = None
            THEN [next EXCEPT !.skipped_no_date = @ + 1]
       ELSE IF since_dt # None /\ dt_before(dt[1], since_dt[1])
            THEN [next EXCEPT !.skipped_out_of_range = @ + 1]
       ELSE IF until_dt # None /\ dt_before(until_dt[1], dt[1])
            THEN [next EXCEPT !.skipped_out_of_range = @ + 1]
       ELSE IF key \in g.seen THEN next
       ELSE [next EXCEPT !.seen = @ \cup {key}, !.cleaned = Append(@, post)]

\* mutant: the lock is not looked at
style_is_blocked_never(style, force) == FALSE

\* style.get("locked") and not force
style_is_blocked(style, force) ==
    /\ style # None /\ "locked" \in DOMAIN style[1] /\ style[1].locked
    /\ ~force

\* style["derived"] = derived, for style = the profile read from the file, or {}
\* when there is no file
with_derived(style, derived) ==
    LET keys == IF style = None THEN {} ELSE DOMAIN style[1]
    IN [k \in keys \cup {"derived"} |-> IF k = "derived" THEN derived ELSE style[1][k]]

Today == "today"     \* str(date.today())

\* mutant: the statistics are computed from the posts of the run alone
update_style_new_posts_only(style, posts, file, append, force) ==
    IF style_is_blocked(style, force) THEN [style |-> style, updated |-> FALSE]
    ELSE [style |-> Some(with_derived(style, analyze_posts(posts, Today))),
          updated |-> TRUE]

\* the style profile file after update_style, and whether it was written
update_style(style, posts, file, append, force) ==
    IF style_is_blocked(style, force) THEN [style |-> style, updated |-> FALSE]
    ELSE LET corpus_posts == IF append THEN read_corpus(file) ELSE posts
         IN [style |-> Some(with_derived(style, analyze_posts(corpus_posts, Today))),
             updated |-> TRUE]

MaxCandidates == 3     \* candidate posts of one run
DefaultMinWords == 3   \* --min-words, default=3

T_Abc == <<"A", " ", "b", " ", "c">>
T_a_bc == <<"a", " ", " ", "b", " ", "c">>
T_abc_url == <<"a", " ", "b", " ", "c", " ", "h", "t", "t", "p", "x">>
T_ab == <<"a", " ", "b">>
T_blank == <<" ">>
T_def == <<"d", " ", "e", " ", "f", "?">>

Early == Some(isoformat(DT(2024, 3, 1, 0)))
Late == Some(isoformat(DT(2024, 3, 31, 0)))
MidMarch == Some(<<"2", "0", "2", "4", "-", "0", "3", "-", "1", "5">>)
MidMarchEvening == Some(isoformat(DT(2024, 3, 15, 19)))

Candidate(p, t, created_at) ==
    Post(p, t, created_at, IF p = S_x THEN S_nitter_pdf ELSE S_linkedin_pdf)
CandidatePool(p) ==
    {Candidate(p, T_Abc, Early), Candidate(p, T_a_bc, Late), Candidate(p, T_abc_url, None),
     Candidate(p, T_ab, Late), Candidate(p, T_blank, None), Candidate(p, T_def, MidMarchEvening)}
CandidateLists(p) == UNION {[1..n -> CandidatePool(p)] : n \in 0..MaxCandidates}

\* a corpus left by earlier runs
P_abc == Post(S_linkedin, <<"a", " ", "b", " ", "c">>, None, S_linkedin_pdf)
P_fb == Post(<<"f", "b">>, T_def, None, <<"h", "t", "m", "l">>)
EarlierCorpora == {None, Some(record_line(P_abc))}
MixedCorpora == {None, Some(record_line(P_fb) \o record_line(P1)), Some(record_line(P_fb))}

\* style profiles: no file, and files with and without the keys locked and derived
EarlierDerived == analyze_posts(<<P3>>, "earlier")
Profiles ==
    {None,
     Some([voice |-> "calm"]),
     Some([voice |-> "calm", locked |-> FALSE, derived |-> EarlierDerived]),
     Some([voice |-> "calm", locked |-> TRUE]),
     Some([voice |-> "calm", locked |-> TRUE, derived |-> EarlierDerived])}

Run(args, posts) ==
    [args |-> args, posts |-> posts, idx |-> 0, cleaned |-> <<>>, seen |-> {},
     skipped_no_date |-> 0, skipped_out_of_range |-> 0, style_updated |-> FALSE,
     stage |-> "filter"]

\* --min-words, --since, --until
FilterSettings ==
    {<<DefaultMinWords, None, None>>, <<DefaultMinWords, MidMarch, None>>,
     <<DefaultMinWords, None, MidMarch>>, <<DefaultMinWords, MidMarch, MidMarch>>,
     <<0, None, None>>}

\* runs that exercise the filters and the dedup
InitFilters ==
    /\ \E posts \in CandidateLists(S_linkedin), append \in BOOLEAN, f \in FilterSettings :
            ingest = Some(Run(Args(append, f[1], f[2], f[3], FALSE, FALSE), posts))
    /\ corpus_file \in EarlierCorpora
    /\ style_file = Some([voice |-> "calm"])

\* runs that exercise the update of the style profile
InitStyle ==
    /\ \E p \in AnalyzedPlatforms, append \in BOOLEAN, update \in BOOLEAN,
          force \in BOOLEAN :
         \E posts \in {<<>>, <<Candidate(p, T_Abc, None)>>,
                       <<Candidate(p, T_def, None), Candidate(p, T_abc_url, None)>>} :
            ingest = Some(Run(Args(append, DefaultMinWords, None, None, update, force),
                              posts))
    /\ corpus_file \in MixedCorpora
    /\ style_file \in Profiles

InitIngest ==
    /\ pc = "ingest"
    /\ GenIdle
    /\ DateIdle /\ ExtractIdle /\ SingletonIdle
    /\ InitFilters \/ InitStyle
    /\ corpus_was = corpus_file
    /\ writers = <<>>
    /\ read_back = None

\* for post in posts: ... cleaned.append(post)
FilterStep ==
    /\ ingest[1].stage = "filter"
    /\ ingest[1].idx < Len(ingest[1].posts)
    /\ ingest' = Some(filter_iteration(ingest[1]))
    /\ UNCHANGED <<style_file, corpusVars>>

\* write_corpus(out_path, cleaned, append=args.append)
WriteStep ==
    /\ ingest[1].stage = "filter"
    /\ ingest[1].idx = Len(ingest[1].posts)
    /\ corpus_file' = write_corpus(corpus_file, ingest[1].cleaned, ingest[1].args.append)
    /\ ingest' = Some([ingest[1] EXCEPT !.stage = "style"])
    /\ UNCHANGED <<style_file, corpus_was, writers, read_back>>

\* if args.update_style: ...
StyleStep ==
    /\ ingest[1].stage = "style"
    /\ LET a == ingest[1].args
           u == update_style(style_file, ingest[1].cleaned, corpus_file, a.append,
                             a.force_update_style)
       IN IF a.update_style
          THEN /\ style_file' = u.style
               /\ ingest' = Some([ingest[1] EXCEPT !.stage = "done",
                                                   !.style_updated = u.updated])
          ELSE /\ style_file' = style_file
               /\ ingest' = Some([ingest[1] EXCEPT !.stage = "done"])
    /\ UNCHANGED corpusVars

NextIngest ==
    /\ pc = "ingest"
    /\ FilterStep \/ WriteStep \/ StyleStep
    /\ UNCHANGED <<genVars, warnVars, dateVars, extractVars, singletonVars>>

SpecIngest == InitIngest /\ [][NextIngest]_vars


(***************************************************************************)
(* app/nithin_post_generator.py: get_nithin_generator called from several  *)
(* threads.  A caller reads the global, and when it finds None it runs the *)
(* constructor, stores the new object in the global, and returns what the  *)
(* global holds then.  The constructor fills the object field by field and *)
(* may raise (json.load of the style guide).  An object is identified by   *)
(* the caller that constructed it.                                         *)
(***************************************************************************)
MaxCallers == 3       \* threads that call get_nithin_generator

Instance(c, fields) == [by |-> c, fields |-> fields]
Caller == [pc |-> "idle", obj |-> None, result |-> None]

\* mutant: every call constructs
found_empty_always(global) == TRUE

\* if _nithin_generator is None
found_empty(global) == global = None

InitSingleton ==
    /\ pc = "singleton"
    /\ GenIdle
    /\ DateIdle /\ ExtractIdle /\ CorpusIdle /\ IngestIdle
    /\ _nithin_generator = None
    /\ \E n \in 1..MaxCallers : callers = [c \in 1..n |-> Caller]

\* the call of get_nithin_generator
CallerEnters(c) ==
    /\ callers[c].pc = "idle"
    /\ callers' = [callers EXCEPT ![c].pc = "check"]
    /\ UNCHANGED _nithin_generator

\* if _nithin_generator is None
CallerChecks(c) ==
    /\ callers[c].pc = "check"
    /\ callers' = [callers EXCEPT
                     ![c].pc = IF found_empty(_nithin_generator) THEN "decided" ELSE "return"]
    /\ UNCHANGED _nithin_generator

\* NithinPostGenerator(): __init__ is entered, the object has some of its fields
CallerConstructs(c) ==
    /\ callers[c].pc = "decided"
    /\ callers' = [callers EXCEPT ![c].pc = "constructing",
                                  ![c].obj = Some(Instance(c, "some"))]
    /\ UNCHANGED _nithin_generator

\* __init__ returns, or raises
CallerConstructed(c) ==
    /\ callers[c].pc = "constructing"
    /\ \/ callers' = [callers EXCEPT ![c].pc = "built",
                                     ![c].obj = Some(Instance(c, "all"))]
       \/ callers' = [callers EXCEPT ![c].pc = "raised", ![c].obj = None]
    /\ UNCHANGED _nithin_generator

\* _nithin_generator = <the new object>
CallerAssigns(c) ==
    /\ callers[c].pc = "built"
    /\ _nithin_generator' = callers[c].obj
    /\ callers' = [callers EXCEPT ![c].pc = "return"]

\* return _nithin_generator
CallerReturns(c) ==
    /\ callers[c].pc = "return"
    /\ callers' = [callers EXCEPT ![c].pc = "done", ![c].result = _nithin_generator]
    /\ UNCHANGED _nithin_generator

NextSingleton ==
    /\ pc = "singleton"
    /\ \/ \E c \in 1..Len(callers) : CallerEnters(c)
       \/ \E c \in 1..Len(callers) : CallerChecks(c)
       \/ \E c \in 1..Len(callers) : CallerConstructs(c)
       \/ \E c \in 1..Len(callers) : CallerConstructed(c)
       \/ \E c \in 1..Len(callers) : CallerAssigns(c)
       \/ \E c \in 1..Len(callers) : CallerReturns(c)
    /\ UNCHANGED <<genVars, warnVars, dateVars, extractVars, corpusVars, ingestVars>>

SpecSingleton == InitSingleton /\ [][NextSingleton]_vars


(***************************************************************************)
(* scripts/ingest_nitter_pdf.py: is_date_line, clean_content and           *)
(* extract_posts.  The record of a scan has the shape of the LinkedIn one; *)
(* the Nitter extractor has no reference date and keeps the date line as   *)
(* it stands.                                                              *)
(***************************************************************************)
N_NOISE_LINES ==
    {<<"n", "i", "t", "t", "e", "r">>,
     <<"l", "o", "a", "d", " ", "n", "e", "w", "e", "s", "t">>,
     <<"t", "w", "e", "e", "t", "s">>,
     <<"t", "w", "e", "e", "t", "s", " ", "&", " ", "r", "e", "p", "l", "i", "e", "s">>,
     <<"m", "e", "d", "i", "a">>,
     <<"s", "e", "a", "r", "c", "h">>,
     <<"s", "h", "o", "w", " ", "t", "h", "i", "s", " ", "t", "h", "r", "e", "a", "d">>,
     <<"m", "o", "r", "e">>}

S_Handle == <<"@", "N", "i", "t", "h", "i", "n", "0", "d", "h", "a">>
Icons == {"(U+E803)", "(U+E80C)", "(U+E801)", "(U+E800)"}
NitterWindow == 8        \* range(i + 1, min(i + 8, len(lines)))
DayDigits == 2           \* \d{1,2}
MonthLetters == 3        \* [A-Za-z]{3}
YearDigits == 4          \* \d{4}

IsLetter(c) == IsWordChar(LowerChar(c)) /\ ~IsDigit(c) /\ c # "'"

\* is_date_line: re.fullmatch(r"\d{1,2} [A-Za-z]{3} \d{4}", line.strip())
is_date_line(line) ==
    LET t == strip(line)
        d == Len(LeadingDigits(t))
    IN /\ d >= 1 /\ d <= DayDigits
       /\ Len(t) = d + 1 + MonthLetters + 1 + YearDigits
       /\ t[d + 1] = " "
       /\ \A k \in (d + 2)..(d + 1 + MonthLetters) : IsLetter(t[k])
       /\ t[d + 2 + MonthLetters] = " "
       /\ \A k \in (d + 3 + MonthLetters)..Len(t) : IsDigit(t[k])

\* "@Nithin0dha" in line
has_handle(line) == \E k \in 1..Len(line) : StartsAt(line, k, S_Handle)

\* clean_content: TRUE when the (trimmed, non-blank) line is dropped
nitter_is_noise(t) ==
    \/ lower(t) \in N_NOISE_LINES
    \/ StartsAt(lower(t), 1, lower(S_Handle))
    \/ t[1] \in Icons
    \/ \A k \in 1..Len(t) : IsDigit(t[k]) \/ t[k] \in {",", "."}

\* clean_content: the loop over the lines; a blank line is kept as one separator
RECURSIVE nitter_clean_lines(_, _)
nitter_clean_lines(ls, cleaned) ==
    IF ls = <<>> THEN cleaned
    ELSE LET t == strip(Head(ls))
         IN IF t = <<>>
            THEN nitter_clean_lines(Tail(ls),
                                    IF cleaned # <<>> /\ cleaned[Len(cleaned)] # <<>>
                                    THEN Append(cleaned, <<>>) ELSE cleaned)
            ELSE IF nitter_is_noise(t) THEN nitter_clean_lines(Tail(ls), cleaned)
            ELSE nitter_clean_lines(Tail(ls), Append(cleaned, t))

\* clean_content: the lines between two blank ones are joined into a paragraph
RECURSIVE paragraphs(_, _)
paragraphs(cleaned, current) ==
    IF cleaned = <<>>
    THEN (IF current # <<>> THEN <<strip(join(<<" ">>, current))>> ELSE <<>>)
    ELSE IF Head(cleaned) = <<>>
         THEN (IF current # <<>> THEN <<strip(join(<<" ">>, current))>> ELSE <<>>)
              \o paragraphs(Tail(cleaned), <<>>)
         ELSE paragraphs(Tail(cleaned), Append(current, Head(cleaned)))

\* clean_content
nitter_clean_content(ls) ==
    strip(join(<<"\n", "\n">>,
               paragraphs(drop_trailing_blanks(nitter_clean_lines(ls, <<>>)), <<>>)))

\* a search for the date line that does not stop at the window
nitter_date_line_idx_unbounded(ls, i) ==
    LET hits == {j \in (i + 1)..Len(ls) : is_date_line(ls[j])}
    IN IF hits = {} THEN 0 ELSE Min(hits)

\* the first date line of the forward window of the anchor at index i (0: none)
nitter_date_line_idx(ls, i) ==
    LET last == IF i + NitterWindow - 1 < Len(ls) THEN i + NitterWindow - 1 ELSE Len(ls)
        hits == {j \in (i + 1)..last : is_date_line(ls[j])}
    IN IF hits = {} THEN 0 ELSE Min(hits)

\* the index of the first anchor line at or after k (Len(ls) + 1: none)
nitter_next_anchor(ls, k) ==
    LET hits == {n \in k..Len(ls) : has_handle(ls[n])}
    IN IF hits = {} THEN Len(ls) + 1 ELSE Min(hits)

\* extract_posts: one iteration of the outer loop (indices count from 1)
nitter_iteration(x) ==
    IF x.i > Len(x.lines) THEN [x EXCEPT !.status = "returned"]
    ELSE IF ~has_handle(x.lines[x.i]) THEN [x EXCEPT !.i = x.i + 1]
    ELSE LET j == nitter_date_line_idx(x.lines, x.i)
         IN IF j = 0 THEN [x EXCEPT !.i = x.i + 1]
            ELSE LET raw_date == x.lines[j]
                     k == nitter_next_anchor(x.lines, j + 1)
                     text_block == nitter_clean_content(SubSeq(x.lines, j + 1, k - 1))
                 IN [x EXCEPT
                       !.posts = IF text_block # <<>>
                                 THEN Append(x.posts,
                                             Post(S_x, text_block, Some(raw_date),
                                                  S_nitter_pdf))
                                 ELSE x.posts,
                       !.i = k]

N_handle == <<"x", " ">> \o S_Handle
N_date == <<"1", "2", " ", "J", "a", "n", " ", "2", "0", "2", "4">>
N_nodate == <<"9", "9", " ", "X", "y", "z", " ", "2", "0", "2", "4">>
N_icon == <<"(U+E803)", " ", "7">>
N_more == <<"M", "o", "r", "e">>
NitterLines == {N_handle, N_date, N_nodate, L_hello, N_icon, N_more, <<>>}
NitterDumps == UNION {[1..n -> NitterLines] : n \in 0..MaxDumpLines}

\* an anchor whose only date line stands k lines after it, then two paragraphs
NitterWindowDump(k) ==
    <<N_handle>> \o Rep(L_hello, k - 1)
    \o <<N_date, L_hello, L_hello, <<>>, L_hello, N_handle, N_date, L_hello>>
NitterLongDumps == {NitterWindowDump(NitterWindow - 1), NitterWindowDump(NitterWindow)}

\* lines = [line.strip() for line in text.splitlines()]; posts = []; i = 0
NewScan(dump) ==
    Some([lines |-> stripped_lines(join(S_NL, dump)),
          reference_date |-> ExtractReference,
          i |-> 1, posts |-> <<>>, status |-> "scan"])

\* the two extractors, each called on one of the enumerated dumps
InitExtractors ==
    /\ pc \in {"extract", "nitter"}
    /\ GenIdle
    /\ ToolsIdle

StartExtract ==
    /\ pc = "extract"
    /\ extraction = None
    /\ \E dump \in ShortDumps \cup LongDumps : extraction' = NewScan(dump)
    /\ UNCHANGED <<genVars, warnVars, dateVars, corpusVars, ingestVars, singletonVars>>

StartNitter ==
    /\ pc = "nitter"
    /\ extraction = None
    /\ \E dump \in NitterDumps \cup NitterLongDumps : extraction' = NewScan(dump)
    /\ UNCHANGED <<genVars, warnVars, dateVars, corpusVars, ingestVars, singletonVars>>

LinkedInStep ==
    /\ extraction # None
    /\ ExtractStep

NitterStep ==
    /\ pc = "nitter"
    /\ extraction # None
    /\ extraction[1].status = "scan"
    /\ extraction' = Some(nitter_iteration(extraction[1]))
    /\ UNCHANGED <<genVars, warnVars, dateVars, corpusVars, ingestVars, singletonVars>>

NextExtractors == StartExtract \/ StartNitter \/ LinkedInStep \/ NitterStep
SpecExtractors == InitExtractors /\ [][NextExtractors]_vars

\* a call that has not started, or a loop that has not returned or raised
ScanPending ==
    /\ pc \in {"extract", "nitter"}
    /\ extraction = None \/ extraction[1].status = "scan"

\* The interpreter runs the call and each iteration of the while loop to its
\* end: weak fairness of NextExtractors.  NextExtractors is enabled exactly
\* when ScanPending holds and each of its steps changes extraction, so the
\* condition is written with these two in place of ENABLED and the action.
ScanFairness == []<>(~ScanPending) \/ []<><<TRUE>>_extraction
FairSpecExtractors == SpecExtractors /\ ScanFairness


(***************************************************************************)
(* Claims about generate().                                                *)
(***************************************************************************)
Entered == generator # None                \* generate() has been called
Returned == result.status = "ok"           \* generate() has returned a GeneratedPost
Available == is_available(generator[1])
GenFailed == gen_reply # None /\ ~gen_reply[1].ok
GenSucceeded == gen_reply # None /\ gen_reply[1].ok
ModelCalls == {"summarize", "generate", "proofread"}
ResearchWarnings == {W_NoSearchKey, W_NoResults, W_Skipped}
TemplateText ==
    _fallback_template(req.context, platform, req.facts, req.angle, req.cta, thread)
Count(seq, x) == Cardinality({i \in 1..Len(seq) : seq[i] = x})

\* C1: once generate() has been called the request always ends with a returned
\* GeneratedPost, never with a raised error, whatever the flags, the provider
\* configuration and the outcome of each external call; a search that fails with
\* a transport error ends in the fallback template.
C1_GenerateNeverRaises ==
    (pc = "done" /\ Entered) => (result.status # "raised" /\ Returned)

\* C2: with no model provider configured no model call of any kind is made, and
\* the post returned is the fallback template, its warnings are the research
\* warnings followed by the 'No LLM configured' warning, metadata.llm is false
\* and metadata.sources holds every research result the search returned.
C2_NoProviderFallback ==
    (Entered /\ ~Available) =>
        /\ \A i \in 1..Len(calls) : calls[i] \notin ModelCalls
        /\ system_prompt = None /\ gen_reply = None /\ proof_reply = None
        /\ research_summary = <<>>
        /\ Returned =>
              /\ result.text = TemplateText
              /\ Len(result.warnings) >= 1
              /\ result.warnings[Len(result.warnings)] = W_NoLLM
              /\ \A i \in 1..(Len(result.warnings) - 1) :
                    result.warnings[i] \in ResearchWarnings
              /\ result.metadata.llm = FALSE
              /\ Len(result.metadata.sources) = Len(research_results)
              /\ \A i \in 1..Len(research_results) :
                    /\ result.metadata.sources[i].title = research_results[i].title
                    /\ result.metadata.sources[i].url = research_results[i].url
                    /\ result.metadata.sources[i].snippet = research_results[i].snippet

C2_Witness ==
    /\ pc = "done" /\ Entered /\ ~Available /\ Returned
    /\ Len(research_results) = MaxResults
    /\ Len(result.metadata.sources) = MaxResults
    /\ result.warnings = <<W_NoLLM>>

\* C3: when the generation model call fails, generate() returns the fallback
\* template, its last warning carries the error message, metadata.llm is false,
\* and the request does not fail.
C3_GenerationFailureFallsBack ==
    GenFailed =>
        /\ pc = "done"
        /\ Returned
        /\ result.text = TemplateText
        /\ Len(result.warnings) = Len(warnings) + 1
        /\ SubSeq(result.warnings, 1, Len(warnings)) = warnings
        /\ result.warnings[Len(result.warnings)].kind = "llm_error"
        /\ result.warnings[Len(result.warnings)].detail = gen_reply[1].text
        /\ gen_reply[1].text \in ErrorMessages
        /\ result.metadata.llm = FALSE

C3_Witness ==
    /\ GenFailed /\ Available /\ Returned
    /\ result.warnings[Len(result.warnings)].kind = "llm_error"
    /\ research_used

MetadataKeys == {"platform", "thread", "variants", "llm", "research_used",
                 "research_query", "research_summary", "sources"}

\* C4: every returned post carries metadata with the eight keys; variants is 1
\* on the two fallback branches and the requested count otherwise; llm is true
\* exactly when the generation call succeeded.
C4_MetadataShape ==
    Returned =>
        /\ DOMAIN result.metadata = MetadataKeys
        /\ (~Available \/ GenFailed) => result.metadata.variants = 1
        /\ ~(~Available \/ GenFailed) => result.metadata.variants = req.variants
        /\ result.metadata.llm <=> GenSucceeded
        /\ result.metadata.platform = platform
        /\ result.metadata.thread = thread

C4_Witness ==
    /\ Returned /\ GenFailed /\ req.variants # 1
    /\ result.metadata.variants = 1 /\ ~result.metadata.llm

C4_WitnessModel ==
    /\ Returned /\ GenSucceeded /\ req.variants # 1
    /\ result.metadata.variants = req.variants /\ result.metadata.llm

\* C5: after the proofreading stage, if the pass failed, answered no text, or
\* answered a text longer than 1.2 times the draft, the text is the draft and
\* the proofread warning is appended (once); otherwise the text is the edited
\* text and there is no proofread warning.  The text is never longer than 1.2
\* times the draft.
C5_ProofreadGuard ==
    proof_reply # None =>
        LET d == gen_reply[1].text
            r == proof_reply[1]
            rejected == \/ ~r.ok
                        \/ r.text = <<>>
                        \/ ProofreadDen * Len(r.text) > ProofreadNum * Len(d)
        IN /\ rejected => text = d /\ Count(warnings, W_Proofread) = 1
           /\ ~rejected => text = r.text /\ Count(warnings, W_Proofread) = 0
           /\ pc = "validate" /\ rejected => warnings[Len(warnings)] = W_Proofread
           /\ ProofreadDen * Len(text) <= ProofreadNum * Len(d)
           /\ Returned => result.text = text

C5_WitnessRejected ==
    /\ proof_reply # None /\ proof_reply[1].ok
    /\ Len(gen_reply[1].text) = 5 /\ Len(proof_reply[1].text) = 7
    /\ text = gen_reply[1].text
    /\ pc = "done"

C5_Witness ==
    /\ proof_reply # None /\ proof_reply[1].ok
    /\ Len(gen_reply[1].text) = 5 /\ Len(proof_reply[1].text) = 6
    /\ text = proof_reply[1].text
    /\ pc = "done"


(***************************************************************************)
(* Claims about the length validation (_basic_warnings on its own).        *)
(***************************************************************************)
WCalled == wout # None
WA == wargs[1]

\* the limit as the claim C6 words it: the override whenever one is given
ClaimedLimit ==
    IF WA.max_chars # None THEN WA.max_chars[1]
    ELSE IF WA.style.x # None THEN WA.style.x[1] ELSE DefaultMaxChars

\* the limit with an override of 0 counted as not given
EffectiveLimit ==
    IF WA.max_chars # None /\ WA.max_chars[1] # 0 THEN WA.max_chars[1]
    ELSE IF WA.style.x # None THEN WA.style.x[1] ELSE DefaultMaxChars

\* C6 as stated: for platform x, non-thread, exactly one overflow warning when
\* the whole text is longer than the limit and none otherwise, the limit being
\* the max_chars override when one is given, else the profile's, else 280.
C6_Original ==
    (WCalled /\ WA.platform = S_x /\ ~WA.thread) =>
        Len(wout[1]) = IF Len(WA.text) > ClaimedLimit THEN 1 ELSE 0

\* C6 (amended): for platform x, non-thread, exactly one overflow warning,
\* naming the limit, when the whole text is longer than the effective limit and
\* none otherwise; the effective limit is the max_chars override when one is
\* given and is not 0, else the profile's x max_chars, else 280.
C6_OverflowWarning ==
    (WCalled /\ WA.platform = S_x /\ ~WA.thread) =>
        wout[1] = IF Len(WA.text) > EffectiveLimit
                  THEN <<W_Post(EffectiveLimit)>> ELSE <<>>

C6_Witness ==
    /\ WCalled /\ WA.platform = S_x /\ ~WA.thread
    /\ WA.max_chars = None /\ WA.style.x = None
    /\ Len(WA.text) = DefaultMaxChars + 20
    /\ wout[1] = <<W_Post(DefaultMaxChars)>>

C6_WitnessZeroOverride ==
    /\ WCalled /\ WA.platform = S_x /\ ~WA.thread
    /\ WA.max_chars = Some(0) /\ WA.style.x = None
    /\ Len(WA.text) = 1
    /\ wout[1] = <<>>

\* a line as the claim C7 words it: the line itself starts with a digit,
\* contains '/' and is longer than the limit
RawLineCounts(line, limit) ==
    /\ strip(line) # <<>>
    /\ IsDigit(line[1]) /\ Contains(line, "/") /\ Len(line) > limit

\* a line after trimming: non-empty, starts with a digit, contains '/', longer
\* than the limit
TrimmedLineCounts(line, limit) ==
    /\ strip(line) # <<>>
    /\ IsDigit(strip(line)[1]) /\ Contains(strip(line), "/") /\ Len(strip(line)) > limit

\* C7 as stated: for platform x with thread set, one warning per non-blank line
\* that starts with a digit, contains '/' and is longer than the limit.
C7_Original ==
    (WCalled /\ WA.platform = S_x /\ WA.thread) =>
        Len(wout[1]) = Len(SelectSeq(splitlines(WA.text),
                                     LAMBDA l : RawLineCounts(l, EffectiveLimit)))

\* C7 (amended): for platform x with thread set, one warning per line whose
\* trimmed form is non-empty, starts with a digit, contains '/' and is longer
\* than the effective limit, in line order, each naming the first 60 characters
\* of the trimmed line, and no other warning; for linkedin no warning at all.
C7_ThreadWarnings ==
    WCalled =>
        /\ WA.platform = S_linkedin => wout[1] = <<>>
        /\ (WA.platform = S_x /\ WA.thread) =>
              LET hits == SelectSeq(splitlines(WA.text),
                                    LAMBDA l : TrimmedLineCounts(l, EffectiveLimit))
              IN wout[1] = [i \in 1..Len(hits) |->
                               W_Tweet(EffectiveLimit, strip(hits[i]))]

C7_Witness ==
    /\ WCalled /\ WA.platform = S_x /\ WA.thread
    /\ WA.text = SmallThread
    /\ Len(wout[1]) = 2
    /\ wout[1][1].detail = <<"1", "/", "a", "a">>
    /\ wout[1][2].detail = <<"2", "/", "a", "a">>

C7_WitnessLong ==
    /\ WCalled /\ WA.platform = S_x /\ WA.thread
    /\ WA.text = LongThread /\ WA.max_chars = None /\ WA.style.x = None
    /\ Len(wout[1]) = 2
    /\ Len(wout[1][1].detail) = 60

(***************************************************************************)
(* Claims about the research decision and the entry points.                *)
(***************************************************************************)
Decided == Entered /\ pc \notin {"entry", "research"}
ResearchPossible == req.allow_research /\ research_is_available(generator[1].research)
ExplicitQuery == req.research_query # None /\ req.research_query[1] # <<>>
ShortContextGiven == Len(split(req.context)) < ShortContextWords
SearchInvoked == \E i \in 1..Len(calls) : calls[i] = "search"
Skipped == \E i \in 1..Len(warnings) : warnings[i] = W_Skipped

\* C8 as stated: an explicit query is the query; else, with auto-research on and
\* a context of fewer than 20 words, the context itself is the query; otherwise
\* (and only then) no query is chosen, search is not invoked and the 'Research
\* skipped' warning is recorded.
C8_Original ==
    (Decided /\ ResearchPossible) =>
        IF ExplicitQuery
        THEN research_query_used = Some(req.research_query[1]) /\ ~Skipped
        ELSE IF req.auto_research /\ ShortContextGiven
        THEN research_query_used = Some(req.context) /\ ~Skipped
        ELSE research_query_used = None /\ Skipped /\ ~SearchInvoked

\* the query the decision chooses, trimmed
ChosenQuery ==
    IF ExplicitQuery THEN Some(strip(req.research_query[1]))
    ELSE IF req.auto_research /\ ShortContextGiven THEN Some(strip(req.context))
    ELSE None

\* C8 (amended): a non-empty explicit query wins and its trimmed form is the
\* query; else, with auto-research on and a context of fewer than 20 words, the
\* trimmed context is the query; otherwise no query is chosen.  When no query is
\* chosen or the chosen query is empty after trimming, search is not invoked and
\* the 'Research skipped' warning is recorded once; otherwise search is invoked
\* and no such warning is recorded.
C8_ResearchDecision ==
    (Decided /\ ResearchPossible) =>
        /\ research_query_used = ChosenQuery
        /\ IF Truthy(ChosenQuery)
           THEN ~Skipped /\ (pc = "search" \/ SearchInvoked)
           ELSE Count(warnings, W_Skipped) = 1 /\ ~SearchInvoked /\ pc # "search"

C8_Witness ==
    /\ Decided /\ ResearchPossible /\ pc = "search"
    /\ ~ExplicitQuery /\ req.auto_research
    /\ Len(split(req.context)) = ShortContextWords - 1
    /\ research_query_used = Some(req.context)

C8_WitnessBlankQuery ==
    /\ Decided /\ ResearchPossible
    /\ req.research_query = Some(<<" ">>) /\ req.auto_research /\ ShortContextGiven
    /\ research_query_used = Some(<<>>) /\ Skipped /\ ~SearchInvoked

C8_WitnessLongContext ==
    /\ Decided /\ ResearchPossible
    /\ ~ExplicitQuery /\ req.auto_research
    /\ Len(split(req.context)) = ShortContextWords
    /\ research_query_used = None /\ Skipped

\* C9: at the generation endpoint a request whose platform, lower-cased and
\* trimmed, is neither 'x' nor 'linkedin' is rejected with a client error before
\* the generator is obtained, and every other request gets a response with text,
\* warnings and metadata: nothing else makes a request fail.
C9_OnlyPlatformRejects ==
    (entry = "api" /\ pc = "done") =>
        IF strip(lower(req.platform)) \notin ValidPlatforms
        THEN result.status = "http400" /\ generator = None /\ calls = <<>>
        ELSE Returned

\* C10: for platform linkedin the thread flag has no effect: generate() is not
\* given it, the system prompt does not announce a thread, and metadata.thread
\* is false.
C10_ThreadIgnoredForLinkedin ==
    (Entered /\ platform = S_linkedin) =>
        /\ thread = FALSE
        /\ system_prompt # None => system_prompt[1].thread = "no"
        /\ Returned => result.metadata.thread = FALSE

(***************************************************************************)
(* Claims about the fallback template.                                     *)
(***************************************************************************)
StartsWith(s, prefix) == Len(s) >= Len(prefix) /\ SubSeq(s, 1, Len(prefix)) = prefix
HasSub(s, sub) ==
    \E k \in 0..(Len(s) - Len(sub)) : SubSeq(s, k + 1, k + Len(sub)) = sub
S_AddTakeaway == <<"[","A","D","D"," ","T","A","K","E","A","W","A","Y","]">>
L_1of3 == <<"1","/","3">>
L_2of3 == <<"2","/","3">>
L_3of3 == <<"3","/","3">>

ThreadFallback == Returned /\ ~Available /\ platform = S_x /\ thread
FactsShown(line) ==
    IF req.facts = <<>> THEN HasSub(line, S_AddFact)
    ELSE \A k \in 1..Len(req.facts) : HasSub(line, req.facts[k])
OneLineContext == ~Contains(strip(req.context), "\n")

C11_WitnessTwoLineContext ==
    /\ ThreadFallback /\ pc = "done"
    /\ req.context = <<"a", "\n", "b">> /\ req.facts = <<>>
    /\ Len(splitlines(result.text)) = 4

(***************************************************************************)
(* Claims about the relative-age resolution.                               *)
(***************************************************************************)
DCalled == dout # None
DA == dargs[1]
MonthsAgo == DCalled /\ DA.unit \in {<<"m", "o">>, <<"m">>}
YearsAgo == DCalled /\ DA.unit \in {<<"y">>, <<"y", "r">>}

\* the date N months before the reference date: month and year by borrow, the
\* day clamped to the length of the target month
MonthsTotal == DA.reference_date.year * 12 + (DA.reference_date.month - 1) - DA.n
ExpectedMonthsYear == MonthsTotal \div 12
ExpectedMonthsMonth == (MonthsTotal % 12) + 1
ExpectedMonthsDay ==
    IF DA.reference_date.day < DaysInMonth(ExpectedMonthsYear, ExpectedMonthsMonth)
    THEN DA.reference_date.day
    ELSE DaysInMonth(ExpectedMonthsYear, ExpectedMonthsMonth)
ExpectedMonths ==
    DT(ExpectedMonthsYear, ExpectedMonthsMonth, ExpectedMonthsDay, 0)

\* the date N years before the reference date: Feb-29 becomes Feb-28 in a
\* target year that is no leap year
ExpectedYears ==
    LET year == DA.reference_date.year - DA.n
    IN IF DA.reference_date.month = 2 /\ DA.reference_date.day = 29 /\ ~IsLeap(year)
       THEN DT(year, 2, 28, 0)
       ELSE DT(year, DA.reference_date.month, DA.reference_date.day, 0)

\* C13: 'N mo' against a reference date yields the date N months earlier with
\* year borrow and the day clamped to the length of the target month (leap years
\* included); 'N y' yields the same month and day N years earlier, Feb-29
\* becoming Feb-28 when the target year is no leap year.  The result is always a
\* valid calendar date.
C13_RelativeAge ==
    /\ MonthsAgo => /\ dout[1].status = "ok"
                    /\ dout[1].dt = ExpectedMonths
                    /\ DateValid(dout[1].dt.year, dout[1].dt.month, dout[1].dt.day)
    /\ YearsAgo => /\ dout[1].status = "ok"
                   /\ dout[1].dt = ExpectedYears
                   /\ DateValid(dout[1].dt.year, dout[1].dt.month, dout[1].dt.day)

\* the arithmetic of C13 wherever the target date is not before year 1
RelativeAgeInRange ==
    /\ (MonthsAgo /\ ExpectedMonthsYear >= MINYEAR) =>
          dout[1] = Resolved(ExpectedMonths)
    /\ (YearsAgo /\ DA.reference_date.year - DA.n >= MINYEAR) =>
          dout[1] = Resolved(ExpectedYears)
    /\ (MonthsAgo /\ ExpectedMonthsYear < MINYEAR) => dout[1] = Raised
    /\ (YearsAgo /\ DA.reference_date.year - DA.n < MINYEAR) => dout[1] = Raised
    /\ (DCalled /\ dout[1].status = "ok") =>
          DateValid(dout[1].dt.year, dout[1].dt.month, dout[1].dt.day)

\* the examples of C13
RelativeAgeExamples ==
    DCalled =>
        /\ (DA.reference_date = [year |-> 2024, month |-> 3, day |-> 31]
            /\ DA.label = <<"1", "m", "o">>) => dout[1] = Resolved(DT(2024, 2, 29, 0))
        /\ (DA.reference_date = [year |-> 2023, month |-> 3, day |-> 31]
            /\ DA.label = <<"1", "m", "o">>) => dout[1] = Resolved(DT(2023, 2, 28, 0))
        /\ (DA.reference_date = [year |-> 2024, month |-> 2, day |-> 29]
            /\ DA.label = <<"1", "y">>) => dout[1] = Resolved(DT(2023, 2, 28, 0))
        /\ (DA.reference_date = [year |-> 2000, month |-> 2, day |-> 29]
            /\ DA.label = <<"1", "0", "0", "y">>) => dout[1] = Resolved(DT(1900, 2, 28, 0))
        /\ (DA.reference_date = [year |-> 2024, month |-> 3, day |-> 1]
            /\ DA.label = <<"1", "h">>) =>
              dout[1] = Resolved(DT(2024, 2, 29, 23))
        /\ (DA.reference_date = [year |-> 2024, month |-> 3, day |-> 1]
            /\ DA.label = <<"2", "w">>) =>
              dout[1] = Resolved(DT(2024, 2, 16, 0))

\* a relative age that reaches before year 1 has been resolved
RelativeAgeBeforeYearOne ==
    /\ YearsAgo /\ DA.reference_date.year = 2024 /\ DA.n = 2024
    /\ dout[1] = Raised

(***************************************************************************)
(* Claims about the post extraction engine.                                *)
(***************************************************************************)
X == extraction[1]

\* C14: extract_posts never raises, whatever the lines hold, a relative-age
\* token with an arbitrarily large count included: it returns a (possibly empty)
\* list of posts, and a date that cannot be resolved gives created_at absent.
C14_ExtractNeverRaises ==
    extraction # None =>
        /\ X.status # "raised"
        /\ \A k \in 1..Len(X.posts) :
              X.posts[k].created_at = None \/ parse_date(X.posts[k].created_at) # None

\* extract_posts on dumps without a relative age that reaches before year 1
ExtractReturnsOtherwise ==
    (extraction # None /\ X.status = "raised") =>
        \E k \in 1..Len(X.lines) : X.lines[k] = L_3000y

ExtractedDated ==
    /\ extraction # None /\ X.status = "returned"
    /\ X.lines = [k \in 1..Len(WindowDump(ForwardWindow - 1)) |->
                     strip(WindowDump(ForwardWindow - 1)[k])]
    /\ Len(X.posts) = 2
    /\ X.posts[1].created_at = Some(isoformat(DT(2024, 3, 28, 0)))
    /\ X.posts[1].text = join(S_NL, <<strip(L_hello)>>)

ExtractedOutsideWindow ==
    /\ extraction # None /\ X.status = "returned"
    /\ X.lines = [k \in 1..Len(WindowDump(ForwardWindow)) |->
                     strip(WindowDump(ForwardWindow)[k])]
    /\ Len(X.posts) = 1

ExtractedMonthAgo ==
    /\ extraction # None /\ X.status = "returned"
    /\ Len(X.posts) = 1
    /\ X.posts[1].created_at = Some(isoformat(DT(2024, 2, 29, 0)))

(***************************************************************************)
(* Claims about the corpus file (SpecCorpus).                              *)
(***************************************************************************)
IsPrefix(s, t) == Len(s) <= Len(t) /\ SubSeq(t, 1, Len(s)) = s

NoWriterOpen == \A w \in 1..Len(writers) : writers[w].state \in {"new", "closed"}
AllClosed == \A w \in 1..Len(writers) : writers[w].state = "closed"
\* the corpus was read back and the file is still what that read saw
ReadBackNow == read_back # None /\ read_back[1].of = corpus_file
OneWriterDone == Len(writers) = 1 /\ AllClosed

\* one call of write_corpus, followed step by step, leaves the file that the
\* call leaves when taken as a whole
WriteCorpusAgrees ==
    OneWriterDone =>
        corpus_file = write_corpus(corpus_was, writers[1].posts, writers[1].append)

\* C15: after write(path, posts, append=true) the corpus read back is the
\* previous corpus followed by posts in order, and what the file held stays in
\* place at its head; after write(path, posts, append=false) the corpus read
\* back is exactly posts in order, whatever the file held before.
C15_WriteThenRead ==
    /\ (OneWriterDone /\ ReadBackNow) =>
          read_back[1].posts =
              IF writers[1].append
              THEN read_corpus(corpus_was) \o writers[1].posts
              ELSE writers[1].posts
    /\ (Len(writers) = 1 /\ writers[1].append /\ corpus_was # None) =>
          /\ corpus_file # None
          /\ IsPrefix(corpus_was[1], corpus_file[1])

\* two posts were appended to a file that held a record, a blank line, a
\* malformed line and a padded record, and all four records were read back
C15_WitnessAppend ==
    /\ OneWriterDone /\ ReadBackNow
    /\ writers[1].append
    /\ writers[1].posts = <<P2, P1>>
    /\ read_corpus(corpus_was) = <<P3, P1>>
    /\ read_back[1].posts = <<P3, P1, P2, P1>>

\* a file that held records was overwritten, and only the new posts were read back
C15_WitnessOverwrite ==
    /\ OneWriterDone /\ ReadBackNow
    /\ ~writers[1].append
    /\ read_corpus(corpus_was) = <<P3, P1>>
    /\ writers[1].posts = <<P2>>
    /\ read_back[1].posts = <<P2>>

StoredPosts == {P1, P2, P3}
\* a line that holds one JSON object and, around it, nothing but white space
WellFormed(line) == \E p \in StoredPosts : item_strip(line) = json_dumps(p)
RecordOf(line) == CHOOSE p \in StoredPosts : item_strip(line) = json_dumps(p)
WellFormedRecords(content) ==
    LET good == SelectSeq(file_lines(content), WellFormed)
    IN [k \in 1..Len(good) |-> RecordOf(good[k])]

\* C16: read(path) returns an empty sequence when the path does not exist, and
\* otherwise returns, in file order, exactly the records of the well-formed
\* lines: malformed and blank lines are skipped, the lines around them are kept.
C16_Read ==
    read_back # None =>
        read_back[1].posts =
            IF read_back[1].of = None THEN <<>>
            ELSE WellFormedRecords(read_back[1].of[1])

\* a file with a malformed line and a blank line between two records was read:
\* both records came back
C16_WitnessSkipped ==
    /\ read_back # None
    /\ read_back[1].of # None
    /\ \E k \in 1..Len(file_lines(read_back[1].of[1])) :
          LET ls == file_lines(read_back[1].of[1])
          IN /\ 1 < k /\ k + 1 < Len(ls)
             /\ WellFormed(ls[1])
             /\ item_strip(ls[k]) # <<>> /\ ~WellFormed(ls[k])
             /\ item_strip(ls[k + 1]) = <<>>
             /\ WellFormed(ls[Len(ls)])
    /\ read_back[1].posts = <<P3, P1>>

\* a path that does not exist was read
C16_WitnessNoFile ==
    read_back # None /\ read_back[1].of = None /\ read_back[1].posts = <<>>

\* s is a, b merged: every element of a and b once, each sequence in its order
RECURSIVE IsMerge(_, _, _)
IsMerge(s, a, b) ==
    IF s = <<>> THEN a = <<>> /\ b = <<>>
    ELSE \/ a # <<>> /\ Head(s) = Head(a) /\ IsMerge(Tail(s), Tail(a), b)
         \/ b # <<>> /\ Head(s) = Head(b) /\ IsMerge(Tail(s), a, Tail(b))

TwoAppendersDone ==
    /\ Len(writers) = 2 /\ AllClosed
    /\ writers[1].append /\ writers[2].append

\* C20: when two writers append to the same corpus file concurrently, the
\* corpus read back afterwards holds what was there before, followed by the
\* records of both writers, each writer's records in its own order and none
\* corrupted or lost.
C20_ConcurrentAppend ==
    (TwoAppendersDone /\ ReadBackNow) =>
        LET old == read_corpus(corpus_was)
            got == read_back[1].posts
        IN /\ IsPrefix(old, got)
           /\ IsMerge(SubSeq(got, Len(old) + 1, Len(got)),
                      writers[1].posts, writers[2].posts)

\* the lines of two appenders alternate in the file
C20_WitnessInterleaved ==
    /\ TwoAppendersDone /\ ReadBackNow
    /\ writers[1].posts = <<P1, P1>>
    /\ writers[2].posts = <<P2, P2>>
    /\ read_back[1].posts = read_corpus(corpus_was) \o <<P1, P2, P1, P2>>
    /\ read_corpus(corpus_was) = <<P3>>

(***************************************************************************)
(* Claims about one ingestion run (SpecIngest).                            *)
(***************************************************************************)
G == ingest[1]
Written == ingest # None /\ G.stage \in {"style", "done"}
Corpus == read_corpus(corpus_file)
PairOf(post) == <<post.platform, lower(normalize_text(post.text))>>
InWindow(c) ==
    \/ ~Truthy(G.args.since) /\ ~Truthy(G.args.until)
    \/ /\ parse_date(c.created_at) # None
       /\ Truthy(G.args.since) =>
             ~dt_before(parse_date(c.created_at)[1], parse_date(G.args.since)[1])
       /\ Truthy(G.args.until) =>
             ~dt_before(parse_date(G.args.until)[1], parse_date(c.created_at)[1])
\* the candidate has a text and passes the word-count and date filters
Passes(c) ==
    /\ normalize_text(c.text) # <<>>
    /\ Len(tokenize(normalize_text(c.text))) >= G.args.min_words
    /\ InWindow(c)
Passing(pair) == {k \in 1..Len(G.posts) : PairOf(G.posts[k]) = pair /\ Passes(G.posts[k])}
Stored(c) == [c EXCEPT !.text = normalize_text(@)]
Holding(records, pair) == {k \in 1..Len(records) : PairOf(records[k]) = pair}

\* C12 as stated: after one ingestion run, for every (platform, lowercased
\* normalized text) pair that occurs among the candidates, the corpus holds
\* exactly one record with that pair, the first candidate in input order that
\* passed the filters.
C12_Original ==
    Written =>
        \A k \in 1..Len(G.posts) :
            LET pair == PairOf(G.posts[k])
            IN /\ Cardinality(Holding(Corpus, pair)) = 1
               /\ Passing(pair) # {}
               /\ \A j \in Holding(Corpus, pair) :
                     Corpus[j] = Stored(G.posts[Min(Passing(pair))])

\* C12: after one ingestion run, for every (platform, lowercased normalized
\* text) pair that occurs among the candidates, the run has stored exactly one
\* record with that pair, the first candidate in input order with a text that
\* passed the filters, and none when no candidate with that pair passed; it
\* has stored nothing else; the corpus holds the stored records alone in
\* overwrite mode, and after what it held before in append mode.
C12_Dedup ==
    Written =>
        /\ \A k \in 1..Len(G.posts) :
              LET pair == PairOf(G.posts[k])
              IN IF Passing(pair) = {} THEN Holding(G.cleaned, pair) = {}
                 ELSE /\ Cardinality(Holding(G.cleaned, pair)) = 1
                      /\ \A j \in Holding(G.cleaned, pair) :
                            G.cleaned[j] = Stored(G.posts[Min(Passing(pair))])
        /\ \A j \in 1..Len(G.cleaned) :
              \E k \in 1..Len(G.posts) : PairOf(G.posts[k]) = PairOf(G.cleaned[j])
        /\ Corpus = (IF G.args.append THEN read_corpus(corpus_was) ELSE <<>>) \o G.cleaned

\* three candidates with one pair: the first is older than --since, the second
\* is the one stored, the third is dropped as a duplicate
C12_Witness ==
    /\ Written
    /\ ~G.args.append
    /\ G.args.since = MidMarch
    /\ G.posts = <<Candidate(S_linkedin, T_Abc, Early), Candidate(S_linkedin, T_a_bc, Late),
                   Candidate(S_linkedin, T_a_bc, Late)>>
    /\ G.skipped_out_of_range = 1
    /\ Corpus = <<Candidate(S_linkedin, <<"a", " ", "b", " ", "c">>, Late)>>

\* three spellings of one text, one with a link: the first is the one stored
C12_WitnessSpellings ==
    /\ Written
    /\ ~G.args.append
    /\ G.posts = <<Candidate(S_linkedin, T_Abc, Early), Candidate(S_linkedin, T_a_bc, Late),
                   Candidate(S_linkedin, T_abc_url, None)>>
    /\ Corpus = <<Candidate(S_linkedin, T_Abc, Early)>>

\* an appending run stores a pair that the corpus held already: two records
C12_WitnessAppendTwice ==
    /\ Written
    /\ G.args.append
    /\ G.posts = <<Candidate(S_linkedin, T_Abc, Early)>>
    /\ Corpus = <<P_abc, Candidate(S_linkedin, T_Abc, Early)>>

\* a pair none of whose candidates passes: no record
C12_WitnessNonePasses ==
    /\ Written
    /\ ~G.args.append
    /\ G.args.min_words = DefaultMinWords
    /\ G.posts = <<Candidate(S_linkedin, T_ab, Late)>>
    /\ Corpus = <<>>

StyleLocked == style_file # None /\ "locked" \in DOMAIN style_file[1] /\ style_file[1].locked
StyleKeys(style) == IF style = None THEN {} ELSE DOMAIN style[1]

\* C17: a run that finds the style profile locked and is not forced leaves the
\* style profile file as it is; a run that changes the file replaces the
\* derived section only: every other key of the profile, locked included,
\* keeps its value, and no key is added or removed.
C17_StyleLock ==
    [][/\ (StyleLocked /\ ~G.args.force_update_style) => style_file' = style_file
       /\ style_file' # style_file =>
             /\ StyleKeys(style_file') = StyleKeys(style_file) \cup {"derived"}
             /\ \A k \in StyleKeys(style_file) \ {"derived"} :
                   style_file'[1][k] = style_file[1][k]]_vars

StyleRunDone == ingest # None /\ G.stage = "done" /\ G.args.update_style

\* a run asked to update a locked profile, unforced: the earlier derived section
\* is still there
C17_WitnessLocked ==
    /\ StyleRunDone
    /\ ~G.args.force_update_style
    /\ StyleLocked
    /\ ~G.style_updated
    /\ G.cleaned # <<>>
    /\ "derived" \in DOMAIN style_file[1]
    /\ style_file[1].derived = EarlierDerived

\* a forced run on a locked profile: the derived section is new, the lock and
\* the hand-authored key are as before
C17_WitnessForced ==
    /\ StyleRunDone
    /\ G.args.force_update_style
    /\ G.style_updated
    /\ StyleLocked
    /\ style_file[1].voice = "calm"
    /\ style_file[1].derived # EarlierDerived
    /\ style_file[1].derived.sample_size[S_x] > 0

\* the posts that analyze_posts was given by the run
Analyzed == IF G.args.append THEN Corpus ELSE G.cleaned
PostsOf(p) == {k \in 1..Len(Analyzed) : Analyzed[k].platform = p}

\* C18: sample_size is reported for both x and linkedin, each the number of
\* posts of that platform; a platform without posts has sample_size 0 and is
\* in none of the rate, average, opener, closer and phrase maps, a platform
\* with posts is in all of them; posts of other platforms change nothing.
C18_SampleSize ==
    (StyleRunDone /\ G.style_updated) =>
        LET derived == style_file[1].derived
        IN /\ DOMAIN derived.sample_size = {S_x, S_linkedin}
           /\ \A p \in {S_x, S_linkedin} :
                 /\ derived.sample_size[p] = Cardinality(PostsOf(p))
                 /\ \A m \in DerivedMaps :
                       p \in DOMAIN derived[m] <=> PostsOf(p) # {}
           /\ \A m \in DerivedMaps : DOMAIN derived[m] \subseteq {S_x, S_linkedin}
           /\ derived = analyze_posts(
                            SelectSeq(Analyzed,
                                      LAMBDA post : post.platform \in {S_x, S_linkedin}),
                            Today)

\* a corpus with a post of another platform and posts of x, none of linkedin
C18_Witness ==
    /\ StyleRunDone /\ G.style_updated
    /\ G.args.append
    /\ \E k \in 1..Len(Analyzed) : Analyzed[k].platform \notin {S_x, S_linkedin}
    /\ style_file[1].derived.sample_size[S_x] = 2
    /\ style_file[1].derived.sample_size[S_linkedin] = 0
    /\ DOMAIN style_file[1].derived.question_rate = {S_x}

(***************************************************************************)
(* Claims about the lazy singleton (SpecSingleton).                        *)
(***************************************************************************)
CallerIds == 1..Len(callers)
\* the caller has found the global empty and has not yet stored its object
InFlight(c) == callers[c].pc \in {"decided", "constructing", "built"}
\* a call has returned and no construction is in flight
Settled ==
    /\ \E c \in CallerIds : callers[c].pc = "done"
    /\ \A c \in CallerIds : ~InFlight(c)
FullyConstructed(v) == v # None /\ v[1].fields = "all"

\* C19: under any interleaving of calls of get_nithin_generator, a call that
\* returns returns a fully constructed generator, and the global never holds a
\* half-built one; several calls may construct; once a call has returned and
\* no construction is in flight, the global keeps its instance, no call
\* constructs again, and every call that returns from then on returns that
\* instance.
C19_LazySingleton ==
    /\ [](\A c \in CallerIds :
            /\ callers[c].pc = "done" => FullyConstructed(callers[c].result)
            /\ _nithin_generator # None => FullyConstructed(_nithin_generator))
    /\ [][Settled =>
            /\ _nithin_generator' = _nithin_generator
            /\ \A c \in CallerIds :
                  /\ callers'[c].pc # callers[c].pc =>
                        callers'[c].pc \notin {"decided", "constructing", "built", "raised"}
                  /\ (callers[c].pc # "done" /\ callers'[c].pc = "done") =>
                        callers'[c].result = _nithin_generator]_vars

\* two callers have each constructed and returned their own instance; a third,
\* which came later, has returned the instance the global holds, and has
\* constructed nothing
C19_Witness ==
    /\ Len(callers) = MaxCallers
    /\ \A c \in CallerIds : callers[c].pc = "done"
    /\ callers[1].result = Some(Instance(1, "all"))
    /\ callers[2].result = Some(Instance(2, "all"))
    /\ callers[3].obj = None
    /\ callers[3].result = _nithin_generator
    /\ _nithin_generator = Some(Instance(1, "all"))

\* a call has returned one instance while another caller, which had found the
\* global empty before, has not yet entered the constructor
C19_WitnessLateConstructor ==
    \E c \in CallerIds, d \in CallerIds :
        /\ callers[c].pc = "done"
        /\ callers[d].pc = "decided"
        /\ \A e \in CallerIds : callers[e].pc \notin {"constructing", "built"}

(***************************************************************************)
(* Claims about the two extractors (SpecExtractors).                       *)
(***************************************************************************)
\* datetime.isoformat() of a timestamp: YYYY-MM-DDTHH:MM:SS
IsCanonical(s) ==
    /\ Len(s) = IsoDateTimeLen
    /\ IsIsoDate(SubSeq(s, 1, IsoDateLen))
    /\ IsIsoTime(SubSeq(s, IsoDateLen + 1, Len(s)))
    /\ s[IsoDateLen + 1] = "T"

\* C21: every post produced by either extractor has created_at absent or a
\* canonical timestamp resolved from the captured date line; a date line that
\* cannot be resolved gives created_at absent, never the raw line.
C21_CreatedAtCanonical ==
    extraction # None =>
        \A k \in 1..Len(X.posts) :
            X.posts[k].created_at = None \/ IsCanonical(X.posts[k].created_at[1])

\* the LinkedIn extractor alone keeps to it
LinkedInCreatedAtCanonical ==
    (extraction # None /\ pc = "extract") =>
        \A k \in 1..Len(X.posts) :
            X.posts[k].created_at = None \/ IsCanonical(X.posts[k].created_at[1])

\* the Nitter extractor stores the date line as it stands ...
NitterStoresRawDate ==
    /\ extraction # None /\ pc = "nitter" /\ X.status = "returned"
    /\ X.lines = <<N_handle, N_date, strip(L_hello)>>
    /\ Len(X.posts) = 1
    /\ X.posts[1].created_at = Some(N_date)

\* ... also one that is no date of the calendar
NitterStoresUnresolvedDate ==
    /\ extraction # None /\ pc = "nitter" /\ X.status = "returned"
    /\ X.lines = <<N_handle, N_nodate, strip(L_hello)>>
    /\ Len(X.posts) = 1
    /\ X.posts[1].created_at = Some(N_nodate)

\* the anchor test, the date-line test, the window and the cleaning of the
\* extractor that runs
IsAnchorLine(l) == IF pc = "nitter" THEN has_handle(l) ELSE l = S_Anchor
IsDateLine(l) == IF pc = "nitter" THEN is_date_line(l) ELSE is_time_line(l)
WindowOf == IF pc = "nitter" THEN NitterWindow ELSE ForwardWindow
CleanedBlock(ls) == IF pc = "nitter" THEN nitter_clean_content(ls) ELSE clean_content(ls)
DatedWithin(x, n) ==
    \E j \in (x.i + 1)..(x.i + n) : j <= Len(x.lines) /\ IsDateLine(x.lines[j])

\* one iteration of the scan from x to y
IterationAdvances(x, y) ==
    /\ y.lines = x.lines
    /\ x.i <= Len(x.lines) + 1
    /\ y.status = "scan" => (y.i > x.i /\ y.i <= Len(x.lines) + 1)
    /\ y.status = "returned" => x.i = Len(x.lines) + 1
    \* an anchor with no date line in its forward window is discarded
    /\ (x.i <= Len(x.lines) /\ IsAnchorLine(x.lines[x.i]) /\ ~DatedWithin(x, WindowOf))
          => (y.status = "scan" /\ y.i = x.i + 1 /\ y.posts = x.posts)
    \* the window reaches WindowOf - 1 lines past the anchor
    /\ (x.i <= Len(x.lines) /\ IsAnchorLine(x.lines[x.i]) /\ y.status = "scan"
          /\ y.posts # x.posts)
          => DatedWithin(x, WindowOf - 1)
    \* the block of a post: from the line after the date line up to the next anchor
    /\ (y.status = "scan" /\ y.posts # x.posts)
          => \E j \in (x.i + 1)..Len(x.lines) :
                /\ IsDateLine(x.lines[j])
                /\ \A n \in (x.i + 1)..(j - 1) : ~IsDateLine(x.lines[n])
                /\ y.i > j
                /\ \A n \in (j + 1)..(y.i - 1) : ~IsAnchorLine(x.lines[n])
                /\ y.i <= Len(x.lines) => IsAnchorLine(x.lines[y.i])
                /\ y.posts = Append(x.posts, y.posts[Len(y.posts)])
                /\ y.posts[Len(y.posts)].text = CleanedBlock(SubSeq(x.lines, j + 1, y.i - 1))

ScanEnded == extraction # None /\ X.status # "scan"


\* C26: extraction terminates on every finite list of lines, each iteration of
\* the loop moving the scan index forward; an anchor with no date line in its
\* forward window gives no post and the scan goes on at the next line; the
\* block of a post runs from the line after its date line up to the next
\* anchor line, which is not part of it.
C26_ExtractionTerminates ==
    /\ [][(extraction # None /\ X.status = "scan")
            => IterationAdvances(extraction[1], extraction'[1])]_vars
    /\ <>[]ScanEnded

\* the first anchor has its date line past the window and is dropped, the
\* second gives a post
C26_Witness ==
    /\ extraction # None /\ pc = "nitter" /\ X.status = "returned"
    /\ X.lines = stripped_lines(join(S_NL, NitterWindowDump(NitterWindow)))
    /\ X.i = Len(X.lines) + 1
    /\ Len(X.posts) = 1
    /\ X.posts[1].text = strip(L_hello)

(***************************************************************************)
(* Claims about the filters of an ingestion run (SpecIngest).              *)
(***************************************************************************)
\* the calendar date of a is before the calendar date of b
day_before(a, b) == dt_before([a EXCEPT !.hour = 0], [b EXCEPT !.hour = 0])
Filtering == Truthy(G.args.since) \/ Truthy(G.args.until)
\* the candidate reaches the date filter: it has a text with enough words
Considered(c) ==
    /\ normalize_text(c.text) # <<>>
    /\ Len(tokenize(normalize_text(c.text))) >= G.args.min_words
Undated(c) == parse_date(c.created_at) = None
\* the date of the candidate is on or after --since and on or before --until
OnDatesInRange(c) ==
    /\ ~Undated(c)
    /\ Truthy(G.args.since) =>
          ~day_before(parse_date(c.created_at)[1], parse_date(G.args.since)[1])
    /\ Truthy(G.args.until) =>
          ~day_before(parse_date(G.args.until)[1], parse_date(c.created_at)[1])
ConsideredCandidates == {k \in 1..Len(G.posts) : Considered(G.posts[k])}

\* C22: with --since and/or --until, a post is kept only if the date of its
\* created_at is on or after the one and on or before the other, whatever its
\* time of day; a post with no or an unreadable created_at is counted as no
\* date, a post outside the range as out of range; with neither option no post
\* is dropped for its date.
C22_DateFilter ==
    Written =>
        IF Filtering
        THEN /\ G.skipped_no_date =
                   Cardinality({k \in ConsideredCandidates : Undated(G.posts[k])})
             /\ G.skipped_out_of_range =
                   Cardinality({k \in ConsideredCandidates :
                                   ~Undated(G.posts[k]) /\ ~OnDatesInRange(G.posts[k])})
             /\ \A k \in ConsideredCandidates :
                   OnDatesInRange(G.posts[k]) =>
                       Holding(G.cleaned, PairOf(G.posts[k])) # {}
             /\ \A j \in 1..Len(G.cleaned) :
                   \E k \in ConsideredCandidates :
                       OnDatesInRange(G.posts[k]) /\ G.cleaned[j] = Stored(G.posts[k])
        ELSE /\ G.skipped_no_date = 0
             /\ G.skipped_out_of_range = 0
             /\ \A k \in ConsideredCandidates : Holding(G.cleaned, PairOf(G.posts[k])) # {}

\* what main does: the comparison is of instants, and --until is the midnight
\* that opens its day
FilterByInstant ==
    Written =>
        /\ G.skipped_no_date =
              Cardinality({k \in ConsideredCandidates : Filtering /\ Undated(G.posts[k])})
        /\ G.skipped_out_of_range =
              Cardinality({k \in ConsideredCandidates :
                              Filtering /\ ~Undated(G.posts[k]) /\ ~InWindow(G.posts[k])})
        /\ \A k \in ConsideredCandidates :
              InWindow(G.posts[k]) => Holding(G.cleaned, PairOf(G.posts[k])) # {}
        /\ \A j \in 1..Len(G.cleaned) :
              \E k \in ConsideredCandidates :
                  InWindow(G.posts[k]) /\ G.cleaned[j] = Stored(G.posts[k])

\* a post of the evening of the day given as --until is dropped as out of range
DroppedOnUntilDay ==
    /\ Written
    /\ G.args.until = MidMarch /\ G.args.since = None
    /\ G.posts = <<Candidate(S_linkedin, T_def, MidMarchEvening)>>
    /\ G.skipped_out_of_range = 1
    /\ G.cleaned = <<>>

\* the same post is kept when the day is given as --since
KeptOnSinceDay ==
    /\ Written
    /\ G.args.since = MidMarch /\ G.args.until = None
    /\ G.posts = <<Candidate(S_linkedin, T_def, MidMarchEvening)>>
    /\ Len(G.cleaned) = 1

\* no space at either end, no run of spaces, no link
IsNormalized(t) ==
    /\ t # <<>>
    /\ ~IsSpace(t[1]) /\ ~IsSpace(t[Len(t)])
    /\ \A k \in 1..Len(t) : IsSpace(t[k]) => t[k] = " "
    /\ \A k \in 1..(Len(t) - 1) : ~(t[k] = " " /\ t[k + 1] = " ")
    /\ \A k \in 1..Len(t) :
          ~(StartsAt(t, k, S_http) /\ k + Len(S_http) <= Len(t)
            /\ ~IsSpace(t[k + Len(S_http)]))

\* C23: every record the run writes to the corpus has a non-empty normalized
\* text (links removed, whitespace collapsed, trimmed) of at least --min-words
\* tokens; a candidate whose normalized text is empty is not written, whatever
\* --min-words is, 0 included.
C23_PersistedText ==
    Written =>
        /\ \E before \in {read_corpus(corpus_was), <<>>} : Corpus = before \o G.cleaned
        /\ \A j \in 1..Len(G.cleaned) :
              /\ IsNormalized(G.cleaned[j].text)
              /\ normalize_text(G.cleaned[j].text) = G.cleaned[j].text
              /\ Len(tokenize(G.cleaned[j].text)) >= G.args.min_words
              /\ \E k \in 1..Len(G.posts) : G.cleaned[j] = Stored(G.posts[k])
        /\ \A k \in 1..Len(G.posts) :
              normalize_text(G.posts[k].text) = <<>> =>
                  \A j \in 1..Len(G.cleaned) : G.cleaned[j] # Stored(G.posts[k])

\* --min-words 0: the blank candidate is dropped, the two-word one and the one
\* with a link are written, the link removed
C23_Witness ==
    /\ Written
    /\ G.args.min_words = 0
    /\ G.posts = <<Candidate(S_linkedin, T_blank, None), Candidate(S_linkedin, T_ab, Late),
                   Candidate(S_linkedin, T_abc_url, None)>>
    /\ Len(G.cleaned) = 2
    /\ G.cleaned[1].text = T_ab
    /\ G.cleaned[2].text = <<"a", " ", "b", " ", "c">>
    /\ Corpus = read_corpus(corpus_was) \o G.cleaned

(***************************************************************************)
(* Claims about the order of the corpus write and the style update         *)
(* (SpecIngest).                                                           *)
(***************************************************************************)
\* C29: in a run that updates the style profile, the corpus file is written
\* before the statistics are computed, and the derived section stored is the
\* analysis of the whole corpus file as that write left it: the earlier records
\* and the new ones in append mode, the new ones alone in overwrite mode.  The
\* corpus is written whether or not the profile is locked.
C29_WriteThenAnalyze ==
    [][/\ (G.stage = "filter" /\ ingest'[1].stage # "filter") =>
             /\ corpus_file' = write_corpus(corpus_file, G.cleaned, G.args.append)
             /\ style_file' = style_file
             /\ ~ingest'[1].style_updated
       /\ (~G.style_updated /\ ingest'[1].style_updated) =>
             /\ G.stage = "style"
             /\ G.args.update_style
             /\ ~StyleLocked \/ G.args.force_update_style
             /\ corpus_file' = corpus_file
             /\ read_corpus(corpus_file) =
                   (IF G.args.append THEN read_corpus(corpus_was) ELSE <<>>) \o G.cleaned
             /\ style_file'[1].derived = analyze_posts(read_corpus(corpus_file), Today)
       /\ (G.stage = "style" /\ G.args.update_style
             /\ (~StyleLocked \/ G.args.force_update_style)) =>
             ingest'[1].style_updated]_vars

\* an appending run: the derived section counts the record the file held
\* before and the one the run added
C29_Witness ==
    /\ StyleRunDone /\ G.style_updated
    /\ G.args.append
    /\ read_corpus(corpus_was) # <<>>
    /\ G.cleaned # <<>>
    /\ Corpus = read_corpus(corpus_was) \o G.cleaned
    /\ style_file[1].derived = analyze_posts(Corpus, Today)
    /\ style_file[1].derived # analyze_posts(G.cleaned, Today)

\* a run that finds the profile locked has written the corpus all the same
C29_WitnessLocked ==
    /\ StyleRunDone /\ ~G.style_updated
    /\ StyleLocked
    /\ ~G.args.append
    /\ G.cleaned # <<>>
    /\ Corpus = G.cleaned
    /\ Corpus # read_corpus(corpus_was)

(***************************************************************************)
(* Claims about the stages of generate() (Spec).                           *)
(***************************************************************************)
\* C24: whatever the search provider answers, the research results that
\* generate() hands to the prompt and reports in metadata.sources are at most 5.
C24_ResultsBounded ==
    /\ Len(research_results) <= SearchMaxResults
    /\ (pc = "done" /\ result.status = "ok") =>
          Len(result.metadata.sources) <= SearchMaxResults

\* the provider answers with one result more than it was asked for: all of
\* them are in the prompt and in the sources
MoreSourcesThanAsked ==
    /\ pc = "done" /\ result.status = "ok"
    /\ calls # <<>> /\ calls[1] = "search"
    /\ Len(research_results) = SearchMaxResults + 1
    /\ Len(result.metadata.sources) = SearchMaxResults + 1
    /\ user_prompt # None
    /\ user_prompt[1] =
          _build_user_prompt(req.context, req.facts, req.angle, req.cta,
                             Rep(SampleResult, SearchMaxResults + 1), research_summary)

Called(c) == \E i \in 1..Len(calls) : calls[i] = c
StageOf(c) ==
    CASE c = "search" -> 1 [] c = "summarize" -> 2 [] c = "generate" -> 3
      [] c = "proofread" -> 4 [] OTHER -> 5
FellBack == Returned /\ ~result.metadata.llm

\* C25: in one request the external calls are made in the order search,
\* summarization, generation, proofreading, each at most once.  Summarization
\* is called only after a search that gave a result and only with a model
\* configured, and generation runs after it whatever it answered; proofreading
\* is called only after a generation call that succeeded and only when the
\* request asks for it.
C25_CallOrder ==
    /\ \A i \in 1..Len(calls) :
          calls[i] \in {"search", "summarize", "generate", "proofread"}
    /\ \A i, j \in 1..Len(calls) : i < j => StageOf(calls[i]) < StageOf(calls[j])
    /\ Called("summarize") =>
          /\ calls[1] = "search"
          /\ research_results # <<>>
          /\ is_available(generator[1])
          /\ pc = "done" => Called("generate")
    /\ Called("proofread") =>
          /\ Called("generate")
          /\ gen_reply # None /\ gen_reply[1].ok
          /\ req.proofread

\* all four calls, the summarization without a summary
C25_Witness ==
    /\ Returned
    /\ calls = <<"search", "summarize", "generate", "proofread">>
    /\ research_summary = <<>>
    /\ result.metadata.llm

\* C27: on both fallback returns of generate() (no model configured, or the
\* generation call failed) neither proofreading nor the length validation has
\* run: the warnings hold no proofread warning and no length warning, also when
\* proofreading was asked for and the draft for x is over the limit.
C27_FallbackSkipsChecks ==
    FellBack =>
        /\ \A i \in 1..Len(result.warnings) :
              result.warnings[i].kind \notin
                  {"proofread_failed", "post_exceeds", "tweet_exceeds"}
        /\ ~Called("proofread") /\ ~Called("grammar")
        /\ proof_reply = None
        /\ result.warnings[Len(result.warnings)].kind \in {"no_llm", "llm_error"}

\* the generation call failed, proofreading was asked for, the draft for x is
\* over the limit
C27_Witness ==
    /\ FellBack
    /\ gen_reply # None /\ ~gen_reply[1].ok
    /\ req.proofread
    /\ platform = S_x
    /\ Len(result.text) > per_post_limit(generator[1].style, req.max_chars)
    /\ _basic_warnings(generator[1].style, result.text, platform, req.max_chars, thread)
          # <<>>

\* the same with no model configured
C27_WitnessNoModel ==
    /\ FellBack
    /\ gen_reply = None
    /\ req.proofread
    /\ platform = S_x
    /\ Len(result.text) > per_post_limit(generator[1].style, req.max_chars)

\* C28: generate() never calls the grammar checker: the proofreading stage is
\* reached only with a model provider configured, so _proofread takes its
\* model pass.
C28_NoGrammarCall ==
    /\ ~Called("grammar")
    /\ pc = "proofread" => is_available(generator[1])
    /\ proof_reply # None =>
          /\ is_available(generator[1])
          /\ Called("proofread")

\* a request that was proofread in a process that has the grammar checker
C28_Witness ==
    /\ Returned
    /\ generator[1].lt_tool
    /\ req.proofread
    /\ proof_reply # None
    /\ calls[Len(calls)] = "proofread"

====
